---------------------------- MODULE Spec2Model ----------------------------
(***************************************************************************)
(* Risk-analysis core of the self-healing supply chain simulation:         *)
(* RiskLevel.from_score, RiskScorer, Risk, AlertGenerator, RiskClassifier  *)
(* and SupplierImpactAnalyzer.                                             *)
(*                                                                         *)
(* Numbers.  A decimal literal of the source, a score given as input and   *)
(* a score returned by round(x, 3) is written as an integer number of      *)
(* millionths (One = 1.0) and denotes the Python float nearest to that     *)
(* decimal.  The arithmetic of RiskScorer and EventNormalizer on them is   *)
(* carried out on IEEE 754 binary64 floats, operation by operation, as     *)
(* CPython does.  The ratios of GeoCorrelator are exact rationals.  Money  *)
(* is in whole dollars, estimated_financial_impact in cents.               *)
(***************************************************************************)
EXTENDS Integers, Sequences, FiniteSets, TLC

VARIABLES
    pc,             \* position of the driver: which call has been made
    score,          \* argument of RiskLevel.from_score
    level,          \* value returned by RiskLevel.from_score
    event,          \* the normalized event (a dict: fields may be absent)
    affected,       \* affected_suppliers passed to the scorer
    geo,            \* geographic_risk_factor passed to calculate_risk_score
    result,         \* dict returned by calculate_risk_score
    risk,           \* the Risk object under analysis
    gen,            \* AlertGenerator instance: its three thresholds
    alert,          \* value last returned by generate_alert
    classifier,     \* RiskClassifier instance: its _mitigation_strategies
    assessment,     \* RiskAssessment.risks: the list of Risk objects
    history,        \* per risk: what classify_risk returned, first and last
    matrix,         \* value last returned by create_risk_matrix
    analyzer,       \* SupplierImpactAnalyzer instance: its suppliers list
    found,          \* value returned by find_affected_suppliers
    alerts,         \* list returned by generate_alerts
    correlator,     \* GeographicCorrelator instance: its suppliers list
    georisk,        \* dict returned by calculate_geographic_risk
    args,           \* arguments passed to a constructor
    sensed,         \* the Event object built by Event(...)
    normalizer,     \* EventNormalizer instance: its confidence_threshold
    normalized,     \* list returned by EventNormalizer.normalize
    clock,          \* the time datetime.now() returns, in ticks
    agent,          \* a sensing agent: BaseAgent's fields
    cycle,          \* the last run_cycle call: what sense() did, what came back
    pipeline,       \* Pipeline instance: its stages and results
    stagecall,      \* the last execute_stage call: its stage, handler, outcome
    calls,          \* the acknowledge calls made on the alert, oldest first
    shown,          \* dictionary returned by the last Alert.to_dict
    radius,         \* radius_km passed to find_nearby_suppliers
    nearby,         \* list returned by find_nearby_suppliers
    run,            \* the last execute_all call: stages run, inputs, returned map
    aggregator,     \* EventAggregator instance: buffer, signatures, index
    added,          \* the last add_batch call: its batch and returned count
    accepted,       \* events _add_event accepted since the last clear
    made,           \* number of Event objects constructed so far
    orchestrated    \* what the orchestrator's stage handlers returned

levelVars == <<score, level>>
scoringVars == <<event, affected, geo, result>>
alertVars == <<gen, alert>>
classifyVars == <<classifier, assessment, history, matrix>>
impactVars == <<analyzer, found>>
coreVars == <<levelVars, scoringVars, risk, alertVars, classifyVars, impactVars>>

batchVars == <<alerts>>
geoVars == <<correlator, georisk>>
sensingVars == <<args, sensed, normalizer, normalized>>
timeVars == <<clock>>
boundaryVars == <<agent, cycle, pipeline, stagecall>>
ackVars == <<calls, shown>>
nearVars == <<radius, nearby>>
runVars == <<run>>
aggVars == <<aggregator, added, accepted, made>>
orchVars == <<orchestrated>>
lateVars == <<nearVars, runVars, aggVars, orchVars>>
extVars == <<batchVars, geoVars, sensingVars, timeVars, boundaryVars, ackVars, lateVars>>

vars == <<pc, coreVars, extVars>>

(***************************************************************************)
(* Decimal literals in millionths                                          *)
(***************************************************************************)
One == 1000 * 1000

Min(a, b) == IF a <= b THEN a ELSE b
Max(a, b) == IF a >= b THEN a ELSE b

(***************************************************************************)
(* Python float: IEEE 754 binary64                                         *)
(*                                                                         *)
(* A float is [neg, m, e]: the value (-1)^neg * m * 2^e, where the         *)
(* significand m is a natural number written in four limbs of 14 bits,     *)
(* least significant first, and is either 0 (then e = 0 and neg = FALSE)   *)
(* or has exactly 53 bits.  Every operation computes the exact result in   *)
(* eight limbs and rounds it to the nearest float, ties to even, as the    *)
(* hardware does.  Subnormal numbers, infinities and -0.0 are outside the  *)
(* range of the scores and amounts computed here.                          *)
(***************************************************************************)
SignificandBits == 53
\* four limbs hold a significand, eight an exact product or quotient
LimbBits == (SignificandBits + 3) \div 4
LimbBase == 2^LimbBits
WideLimbs == 2 * 4
WideBits == LimbBits * WideLimbs

Pow2 == [k \in 0..LimbBits |-> 2^k]

Limb(n, i) == IF i \in DOMAIN n THEN n[i] ELSE 0

\* the eight limbs of a function on 1..WideLimbs, as a tuple
Limbs(f) == <<f[1], f[2], f[3], f[4], f[5], f[6], f[7], f[8]>>

Wide(n) == Limbs([i \in 1..WideLimbs |-> Limb(n, i)])

WideZero == <<0, 0, 0, 0, 0, 0, 0, 0>>

\* a natural number below 2^31 in eight limbs
WideOfInt(n) ==
    Wide(<<n % LimbBase, (n \div LimbBase) % LimbBase, n \div (LimbBase * LimbBase)>>)

\* the value of a wide number, an int below 2^31: the evaluation of a
\* larger one stops with an overflow
IntOfWide(n) ==
    n[1] + LimbBase * (n[2] + LimbBase * (n[3] + LimbBase * (n[4] + LimbBase
             * (n[5] + LimbBase * (n[6] + LimbBase * (n[7] + LimbBase * n[8]))))))

\* n shifted right by q limbs and r bits
ShiftRightBy(n, q, r) ==
    Limbs([i \in 1..WideLimbs |->
              (Limb(n, i + q) \div Pow2[r])
              + (Limb(n, i + q + 1) % Pow2[r]) * Pow2[LimbBits - r]])

ShiftRight(n, k) == ShiftRightBy(n, k \div LimbBits, k % LimbBits)

\* n shifted left by q limbs and r bits
ShiftLeftBy(n, q, r) ==
    Limbs([i \in 1..WideLimbs |->
              (Limb(n, i - q) % Pow2[LimbBits - r]) * Pow2[r]
              + (Limb(n, i - q - 1) \div Pow2[LimbBits - r])])

ShiftLeft(n, k) == ShiftLeftBy(n, k \div LimbBits, k % LimbBits)

\* bit k of n, counting from 0
BitAt(n, k) == (Limb(n, k \div LimbBits + 1) \div Pow2[k % LimbBits]) % 2

\* the k lowest bits of n are all 0
LowBitsZero(n, k) ==
    /\ \A i \in 1..WideLimbs : i <= k \div LimbBits => n[i] = 0
    /\ Limb(n, k \div LimbBits + 1) % Pow2[k % LimbBits] = 0

\* the highest nonzero limb among n[1..i], 0 when there is none
TopLimb(n, i) ==
    IF \A j \in 1..i : n[j] = 0 THEN 0
    ELSE CHOOSE j \in 1..i : n[j] # 0 /\ \A k \in (j + 1)..i : n[k] = 0

\* the number of bits of a limb
LimbLength(v) ==
    IF v = 0 THEN 0 ELSE CHOOSE k \in 1..LimbBits : Pow2[k - 1] <= v /\ v < Pow2[k]

\* the number of bits of n, whose highest nonzero limb is top
BitLengthFrom(n, top) ==
    IF top = 0 THEN 0 ELSE LimbBits * (top - 1) + LimbLength(n[top])

BitLength(n) == BitLengthFrom(n, TopLimb(n, Len(n)))

\* limb sums below 2^31 brought back under the base, carries moving up
RECURSIVE CarryFrom(_, _, _)
CarryFrom(sums, i, carry) ==
    IF i > WideLimbs THEN <<>>
    ELSE LET sum == sums[i] + carry
         IN  <<sum % LimbBase>> \o CarryFrom(sums, i + 1, sum \div LimbBase)

WideAdd(a, b) == CarryFrom([i \in 1..WideLimbs |-> a[i] + b[i]], 1, 0)

WideTimes(a, c) == CarryFrom([i \in 1..WideLimbs |-> a[i] * c], 1, 0)

\* the product of two four-limb numbers
WideProduct(a, b) ==
    CarryFrom([k \in 1..WideLimbs |->
                  (IF k \in 1..4 THEN a[1] * b[k] ELSE 0)
                  + (IF k - 1 \in 1..4 THEN a[2] * b[k - 1] ELSE 0)
                  + (IF k - 2 \in 1..4 THEN a[3] * b[k - 2] ELSE 0)
                  + (IF k - 3 \in 1..4 THEN a[4] * b[k - 3] ELSE 0)], 1, 0)

\* a < b, as numbers
WideLess(a, b) ==
    \E i \in DOMAIN a : a[i] < b[i] /\ \A j \in DOMAIN a : j > i => a[j] = b[j]

\* a - b for a >= b
RECURSIVE BorrowFrom(_, _, _, _)
BorrowFrom(a, b, i, borrow) ==
    IF i > WideLimbs THEN <<>>
    ELSE LET d == a[i] - b[i] - borrow
         IN  IF d < 0 THEN <<d + LimbBase>> \o BorrowFrom(a, b, i + 1, 1)
             ELSE <<d>> \o BorrowFrom(a, b, i + 1, 0)

WideSub(a, b) == BorrowFrom(a, b, 1, 0)

\* LimbBase^k mod d for k = 0..7 (at index k + 1), from b = LimbBase mod d
\* and its second and fourth powers mod d
PowerMods(b, b2, b4, d) ==
    <<1 % d, b, b2, (b2 * b) % d, b4, (b4 * b) % d, (b4 * b2) % d,
      (((b4 * b2) % d) * b) % d>>

PowerModsFromSquare(b, b2, d) == PowerMods(b, b2, (b2 * b2) % d, d)

PowerModsFrom(b, d) == PowerModsFromSquare(b, (b * b) % d, d)

\* limb j of n, weighted as seen from limb i, mod d
WeightedLimb(n, p, d, i, j) ==
    IF j > WideLimbs THEN 0 ELSE (n[j] * p[j - i + 1]) % d

\* the number made of the limbs i and above of n, mod d
RemainderFrom(n, p, d, i) ==
    ((((WeightedLimb(n, p, d, i, i) + WeightedLimb(n, p, d, i, i + 1))
       + (WeightedLimb(n, p, d, i, i + 2) + WeightedLimb(n, p, d, i, i + 3)))
      + ((WeightedLimb(n, p, d, i, i + 4) + WeightedLimb(n, p, d, i, i + 5))
         + (WeightedLimb(n, p, d, i, i + 6) + WeightedLimb(n, p, d, i, i + 7))))
     % d)

\* long division of n by d, given the powers of the base mod d: each
\* quotient limb comes from the remainder of the limbs above it
DivideWith(n, d, p) ==
    [q |-> Limbs([i \in 1..WideLimbs |->
                    (RemainderFrom(n, p, d, i + 1) * LimbBase + n[i]) \div d]),
     r |-> RemainderFrom(n, p, d, 1)]

\* n divided by d, for 0 < d < 2^15: the quotient limbs and the remainder
WideDivide(n, d) == DivideWith(n, d, PowerModsFrom(LimbBase % d, d))

FloatZero == [neg |-> FALSE, m |-> <<0, 0, 0, 0>>, e |-> 0]

IsZero(x) == x.m = <<0, 0, 0, 0>>

\* the quotient q, plus one when the dropped part is over one half
\* (`half` and `rest`), or is one half and q is odd
RoundedQuotient(q, half, rest) ==
    IF half /\ (rest \/ q[1] % 2 = 1) THEN WideAdd(q, WideOfInt(1)) ELSE q

\* n rounded to k bits dropped: the quotient by 2^k, plus one when the
\* dropped part (with `more` standing for a nonzero amount below bit 0)
\* is over one half, or is one half and the quotient is odd
RoundedShift(n, k, more) ==
    RoundedQuotient(ShiftRight(n, k), k > 0 /\ BitAt(n, k - 1) = 1,
                    more \/ (k > 1 /\ ~LowBitsZero(n, k - 1)))

\* the float (-1)^neg * r * 2^e for r of 53 bits, or of 54 bits after a
\* rounding that carried into bit 53
Renormalized(neg, r, e) ==
    IF BitAt(r, SignificandBits) = 1
    THEN [neg |-> neg, m |-> SubSeq(ShiftRight(r, 1), 1, 4), e |-> e + 1]
    ELSE [neg |-> neg, m |-> SubSeq(r, 1, 4), e |-> e]

\* RoundToFloat for n of len bits
RoundToLength(neg, n, e, more, len) ==
    IF len = 0 THEN FloatZero
    ELSE IF len <= SignificandBits
    THEN [neg |-> neg,
          m |-> SubSeq(ShiftLeft(n, SignificandBits - len), 1, 4),
          e |-> e - (SignificandBits - len)]
    ELSE Renormalized(neg, RoundedShift(n, len - SignificandBits, more),
                      e + (len - SignificandBits))

\* the float nearest to (-1)^neg * (n + less than 1, if `more`) * 2^e
RoundToFloat(neg, n, e, more) ==
    IF n = WideZero THEN FloatZero
    ELSE RoundToLength(neg, n, e, more, BitLength(n))

\* the limbs a quotient keeps below the unit
FractionLimbs == WideLimbs - 3

\* a natural number below 2^31, times LimbBase^FractionLimbs
Numerator(n) ==
    <<0, 0, 0, 0, 0, n % LimbBase, (n \div LimbBase) % LimbBase,
      n \div (LimbBase * LimbBase)>>

\* the float nearest to (-1)^neg * (q.q + less than 1, if q.r # 0)
\* / LimbBase^FractionLimbs
FloatOfQuotient(neg, q) ==
    RoundToFloat(neg, q.q, -(FractionLimbs * LimbBits), q.r # 0)

\* the float nearest to n / d, for |n| < 2^31 and 0 < d < 2^14: the quotient
\* of n * LimbBase^FractionLimbs by d has 56 bits or more
FloatOfRatio(n, d) ==
    IF n = 0 THEN FloatZero
    ELSE FloatOfQuotient(n < 0, WideDivide(Numerator(IF n < 0 THEN -n ELSE n), d))

\* x / 2^k, which is exact
Halved(x, k) == IF x.m = <<0, 0, 0, 0>> THEN x ELSE [x EXCEPT !.e = @ - k]

\* float(n) of an int
FloatOfInt(n) == RoundToFloat(n < 0, WideOfInt(IF n < 0 THEN -n ELSE n), 0, FALSE)

\* the float a decimal literal of n millionths denotes: the float nearest
\* to n / 10^6, which is n / 5^6 halved six times
Float(n) == Halved(FloatOfRatio(n, 5^6), 6)

\* x * y
FMul(x, y) ==
    IF IsZero(x) \/ IsZero(y) THEN FloatZero
    ELSE RoundToFloat(x.neg # y.neg, WideProduct(x.m, y.m), x.e + y.e, FALSE)

\* |x| < |y|
MagnitudeLess(x, y) ==
    IF IsZero(y) THEN FALSE
    ELSE IF IsZero(x) THEN TRUE
    ELSE x.e < y.e \/ (x.e = y.e /\ WideLess(x.m, y.m))

\* the exponent gap beyond which the smaller operand cannot change the sum
AbsorbedGap == SignificandBits + 2

\* x + y
\* big + small for significands a >= b aligned at the exponent of small
AddAligned(big, small, a, b) ==
    RoundToFloat(big.neg,
                 IF big.neg = small.neg THEN WideAdd(a, b) ELSE WideSub(a, b),
                 small.e, FALSE)

\* big + small for |big| >= |small|, neither zero
AddOrdered(big, small) ==
    IF big.e - small.e > AbsorbedGap THEN big
    ELSE AddAligned(big, small, ShiftLeft(Wide(big.m), big.e - small.e),
                    Wide(small.m))

FAdd(x, y) ==
    IF IsZero(x) THEN y
    ELSE IF IsZero(y) THEN x
    ELSE AddOrdered(IF MagnitudeLess(x, y) THEN y ELSE x,
                    IF MagnitudeLess(x, y) THEN x ELSE y)

\* x < y
FLess(x, y) ==
    IF x.neg /\ ~y.neg THEN TRUE
    ELSE IF ~x.neg /\ y.neg THEN FALSE
    ELSE IF x.neg THEN MagnitudeLess(y, x)
    ELSE MagnitudeLess(x, y)

\* x >= y
FGe(x, y) == ~FLess(x, y)

\* -x
FNeg(x) == IF IsZero(x) THEN x ELSE [x EXCEPT !.neg = ~x.neg]

\* units, negated when neg
Signed(neg, units) == IF neg THEN -units ELSE units

\* min(x, y) and max(x, y): the first argument unless the second is
\* smaller, respectively larger
FMin(x, y) == IF FLess(y, x) THEN y ELSE x
FMax(x, y) == IF FLess(x, y) THEN y ELSE x

\* the integer nearest to n * 2^x.e, ties to even, with the sign of x
RoundedUnits(x, n) ==
    Signed(x.neg,
           IF x.e >= 0 THEN IntOfWide(ShiftLeft(n, x.e))
           ELSE IF -x.e > WideBits THEN 0
           ELSE IntOfWide(RoundedShift(n, -x.e, FALSE)))

\* round(x, ndigits) for ndigits <= 3: the number of units of 10^-ndigits
\* in the result, which is the decimal nearest to the exact value of x,
\* ties to even
PyRound(x, ndigits) == RoundedUnits(x, WideTimes(Wide(x.m), 10^ndigits))

\* int(x): x truncated towards zero
PyInt(x) ==
    Signed(x.neg,
           IF x.e >= 0 THEN IntOfWide(ShiftLeft(Wide(x.m), x.e))
           ELSE IF -x.e > WideBits THEN 0
           ELSE IntOfWide(ShiftRight(Wide(x.m), -x.e)))

\* min(max(x, 0.0), 1.0)
Clamp01_UpperOnly(x) == Min(One, x)

Clamp01(x) == Min(Max(x, 0), One)

None == "None"

\* variables a specification does not use hold None throughout
NoLevel == score = None /\ level = None
NoScoring == event = None /\ affected = None /\ geo = None /\ result = None
NoAlerting == gen = None /\ alert = None
NoClassifying ==
    classifier = None /\ assessment = None /\ history = None /\ matrix = None
NoImpact == analyzer = None /\ found = None
NoBatch == alerts = None
NoGeo == correlator = None /\ georisk = None
NoSensing ==
    args = None /\ sensed = None /\ normalizer = None /\ normalized = None
NoTime == clock = None
NoBoundary ==
    agent = None /\ cycle = None /\ pipeline = None /\ stagecall = None
NoAck == calls = None /\ shown = None
NoNear == radius = None /\ nearby = None
NoRun == run = None
NoAgg ==
    aggregator = None /\ added = None /\ accepted = None /\ made = None
NoOrch == orchestrated = None
NoLate == NoNear /\ NoRun /\ NoAgg /\ NoOrch
NoExt == NoBatch /\ NoGeo /\ NoSensing /\ NoTime /\ NoBoundary /\ NoAck /\ NoLate

(***************************************************************************)
(* RiskLevel.from_score                                                    *)
(***************************************************************************)
LevelCritical == 800000
LevelHigh == 600000
LevelMedium == 400000

RiskLevels == {"critical", "high", "medium", "low"}

\* the three thresholds, as floats
LevelThresholds ==
    [ critical |-> Float(LevelCritical), high |-> Float(LevelHigh),
      medium |-> Float(LevelMedium) ]

\* the tier of a score strictly above a threshold
LevelAbove(s, thresholds) ==
    IF FLess(thresholds.critical, s) THEN "critical"
    ELSE IF FLess(thresholds.high, s) THEN "high"
    ELSE IF FLess(thresholds.medium, s) THEN "medium"
    ELSE "low"

\* the tier of a score at or above a threshold
LevelAtOrAbove(s, thresholds) ==
    IF FGe(s, thresholds.critical) THEN "critical"
    ELSE IF FGe(s, thresholds.high) THEN "high"
    ELSE IF FGe(s, thresholds.medium) THEN "medium"
    ELSE "low"

FromScore_OffByBoundary(s) == LevelAbove(s, LevelThresholds)

\* RiskLevel.from_score, on a float
FromScore(s) == LevelAtOrAbove(s, LevelThresholds)


(***************************************************************************)
(* Text.  A Python str is a sequence of one-character strings, so that     *)
(* lower() and the substring test `in` are computed, not assumed.  Its     *)
(* characters are those of Alphabet.  Where                                *)
(* the code only tests optional text for truthiness, None and "" are both  *)
(* the empty sequence NoText.  Where it formats the text (the signature of *)
(* EventAggregator), None is NoneText, which is no str: its one element is *)
(* not a character.                                                        *)
(***************************************************************************)
NoText == <<>>

NoneText == <<"None">>

\* The characters of text: printable ASCII and ISO 8859-1.  The upper-case
\* letters and, at the same positions, what str.lower() makes of them
UpperCase == "ABCDEFGHIJKLMNOPQRSTUVWXYZÀÁÂÃÄÅÆÇÈÉÊËÌÍÎÏÐÑÒÓÔÕÖØÙÚÛÜÝÞ"
LowerCase == "abcdefghijklmnopqrstuvwxyzàáâãäåæçèéêëìíîïðñòóôõöøùúûüýþ"

\* the characters that are neither: str.lower() leaves them, and the
\* letters of LowerCase, as they are
OtherCharacters ==
    " !\"#$%&'()*+,-./0123456789:;<=>?@[\\]^_{|}~"
    \o "¡¢£¤¥¦§¨©ª«¬®¯°±²³´µ¶·¸¹º»¼½¾¿×ß÷ÿ"

\* the one-character strings of a string
Characters(s) == {SubSeq(s, k, k) : k \in 1..Len(s)}

UpperCaseLetters == Characters(UpperCase)

Alphabet ==
    UpperCaseLetters \cup Characters(LowerCase) \cup Characters(OtherCharacters)

\* str.lower() of each character of the alphabet
LowerMap ==
    [c \in Alphabet |->
        IF c \in UpperCaseLetters
        THEN LET k == CHOOSE i \in 1..Len(UpperCase) : SubSeq(UpperCase, i, i) = c
             IN  SubSeq(LowerCase, k, k)
        ELSE c]

\* str.lower() of a character; text over another alphabet is not modelled,
\* and the evaluation stops on it
LowerChar(c) == LowerMap[c]

\* str.lower()
Lower(t) == [i \in DOMAIN t |-> LowerChar(t[i])]

\* a in b for two str (substring containment; "" is in every str)
Contains(b, a) ==
    \E k \in 0..(Len(b) - Len(a)) : SubSeq(b, k + 1, k + Len(a)) = a

(***************************************************************************)
(* Supplier model and the simulated supplier database                      *)
(***************************************************************************)
Criticalities == {"critical", "high", "medium", "low"}

\* latitude / longitude of a supplier or an event that is None
NoCoordinate == 99999

SIMULATED_SUPPLIERS == <<
    [ name |-> "TechParts Asia",
      country |-> <<"C","h","i","n","a">>,
      city |-> <<"S","h","e","n","z","h","e","n">>,
      region |-> <<"G","u","a","n","g","d","o","n","g">>,
      criticality |-> "high",
      categories |-> << <<"e","l","e","c","t","r","o","n","i","c","s">>,
                      <<"s","e","m","i","c","o","n","d","u","c","t","o","r","s">>,
                      <<"c","o","m","p","o","n","e","n","t","s">> >>,
      lead_time_days |-> 21,
      annual_spend |-> 5000000,
      latitude |-> 2254,
      longitude |-> 11406 ],
    [ name |-> "Rotterdam Logistics BV",
      country |-> <<"N","e","t","h","e","r","l","a","n","d","s">>,
      city |-> <<"R","o","t","t","e","r","d","a","m">>,
      region |-> NoText,
      criticality |-> "critical",
      categories |-> << <<"f","r","e","i","g","h","t">>,
                      <<"l","o","g","i","s","t","i","c","s">>,
                      <<"w","a","r","e","h","o","u","s","i","n","g">> >>,
      lead_time_days |-> 7,
      annual_spend |-> 3000000,
      latitude |-> 5192,
      longitude |-> 448 ],
    [ name |-> "Singapore Shipping Corp",
      country |-> <<"S","i","n","g","a","p","o","r","e">>,
      city |-> <<"S","i","n","g","a","p","o","r","e">>,
      region |-> NoText,
      criticality |-> "high",
      categories |-> << <<"m","a","r","i","t","i","m","e">>,
                      <<"s","h","i","p","p","i","n","g">>,
                      <<"f","r","e","i","g","h","t">> >>,
      lead_time_days |-> 14,
      annual_spend |-> 4000000,
      latitude |-> 129,
      longitude |-> 10385 ],
    [ name |-> "Mumbai Components Ltd",
      country |-> <<"I","n","d","i","a">>,
      city |-> <<"M","u","m","b","a","i">>,
      region |-> <<"M","a","h","a","r","a","s","h","t","r","a">>,
      criticality |-> "medium",
      categories |-> << <<"m","a","n","u","f","a","c","t","u","r","i","n","g">>,
                      <<"c","o","m","p","o","n","e","n","t","s">>,
                      <<"a","s","s","e","m","b","l","y">> >>,
      lead_time_days |-> 28,
      annual_spend |-> 1500000,
      latitude |-> 1895,
      longitude |-> 7295 ],
    [ name |-> "Texas Energy Solutions",
      country |-> <<"U","S","A">>,
      city |-> <<"H","o","u","s","t","o","n">>,
      region |-> <<"T","e","x","a","s">>,
      criticality |-> "high",
      categories |-> << <<"e","n","e","r","g","y">>,
                      <<"p","e","t","r","o","c","h","e","m","i","c","a","l","s">>,
                      <<"r","a","w"," ","m","a","t","e","r","i","a","l","s">> >>,
      lead_time_days |-> 10,
      annual_spend |-> 6000000,
      latitude |-> 2976,
      longitude |-> -9537 ],
    [ name |-> "Japan Precision Industries",
      country |-> <<"J","a","p","a","n">>,
      city |-> <<"O","s","a","k","a">>,
      region |-> <<"K","a","n","s","a","i">>,
      criticality |-> "critical",
      categories |-> << <<"p","r","e","c","i","s","i","o","n"," ","c","o","m","p","o","n","e","n","t","s">>,
                      <<"m","a","c","h","i","n","e","r","y">>,
                      <<"e","l","e","c","t","r","o","n","i","c","s">> >>,
      lead_time_days |-> 18,
      annual_spend |-> 8000000,
      latitude |-> 3469,
      longitude |-> 13550 ],
    [ name |-> "Bangkok Manufacturing",
      country |-> <<"T","h","a","i","l","a","n","d">>,
      city |-> <<"B","a","n","g","k","o","k">>,
      region |-> NoText,
      criticality |-> "medium",
      categories |-> << <<"m","a","n","u","f","a","c","t","u","r","i","n","g">>,
                      <<"a","s","s","e","m","b","l","y">>,
                      <<"t","e","x","t","i","l","e","s">> >>,
      lead_time_days |-> 25,
      annual_spend |-> 1200000,
      latitude |-> 1375,
      longitude |-> 10052 ],
    [ name |-> "Taiwan Semiconductor",
      country |-> <<"T","a","i","w","a","n">>,
      city |-> <<"T","a","i","p","e","i">>,
      region |-> NoText,
      criticality |-> "critical",
      categories |-> << <<"s","e","m","i","c","o","n","d","u","c","t","o","r","s">>,
                      <<"c","h","i","p","s">>,
                      <<"e","l","e","c","t","r","o","n","i","c","s">> >>,
      lead_time_days |-> 30,
      annual_spend |-> 12000000,
      latitude |-> 2503,
      longitude |-> 12157 ],
    [ name |-> "Kolkata Port Services",
      country |-> <<"I","n","d","i","a">>,
      city |-> <<"K","o","l","k","a","t","a">>,
      region |-> <<"W","e","s","t"," ","B","e","n","g","a","l">>,
      criticality |-> "medium",
      categories |-> << <<"p","o","r","t"," ","s","e","r","v","i","c","e","s">>,
                      <<"f","r","e","i","g","h","t">>,
                      <<"l","o","g","i","s","t","i","c","s">> >>,
      lead_time_days |-> 14,
      annual_spend |-> 800000,
      latitude |-> 2257,
      longitude |-> 8836 ],
    [ name |-> "Dubai Logistics Hub",
      country |-> <<"U","A","E">>,
      city |-> <<"D","u","b","a","i">>,
      region |-> NoText,
      criticality |-> "high",
      categories |-> << <<"l","o","g","i","s","t","i","c","s">>,
                      <<"f","r","e","i","g","h","t">>,
                      <<"d","i","s","t","r","i","b","u","t","i","o","n">> >>,
      lead_time_days |-> 12,
      annual_spend |-> 2500000,
      latitude |-> 2501,
      longitude |-> 5507 ]
>>

\* suppliers outside the simulated database, for analyzers built on a list
\* of their own: one without categories, region or city in a lower-case
\* country, one whose category is capitalised
EXTRA_SUPPLIERS == <<
    [ name |-> "Generic Trading",
      country |-> <<"c","h","i","n","a">>,
      city |-> NoText,
      region |-> NoText,
      criticality |-> "low",
      categories |-> << >>,
      lead_time_days |-> 14,
      annual_spend |-> 200000,
      latitude |-> NoCoordinate,
      longitude |-> NoCoordinate ],
    [ name |-> "Lima Works",
      country |-> <<"P","e","r","u">>,
      city |-> <<"L","i","m","a">>,
      region |-> NoText,
      criticality |-> "medium",
      categories |-> << <<"M","a","n","u","f","a","c","t","u","r","i","n","g">> >>,
      lead_time_days |-> 14,
      annual_spend |-> 0,
      latitude |-> -1205,
      longitude |-> NoCoordinate ]
>>

\* Suppliers are held by reference: a supplier list is a sequence of
\* indices into the supplier objects that exist.
SUPPLIER_OBJECTS == SIMULATED_SUPPLIERS \o EXTRA_SUPPLIERS

Supplier(i) == SUPPLIER_OBJECTS[i]

\* Supplier.is_in_country / is_in_region / is_in_city
IsInCountry(s, country) ==
    IF country = NoText THEN FALSE ELSE Lower(s.country) = Lower(country)
IsInRegion(s, region) ==
    IF region = NoText \/ s.region = NoText THEN FALSE
    ELSE Lower(s.region) = Lower(region)
IsInCity(s, city) ==
    IF city = NoText \/ s.city = NoText THEN FALSE
    ELSE Lower(s.city) = Lower(city)


(***************************************************************************)
(* Events: a normalized event is a dict, modelled as a record whose fields *)
(* may be absent (dict.get with a default).                                *)
(***************************************************************************)
Get(d, key, default) == IF key \in DOMAIN d THEN d[key] ELSE default

(***************************************************************************)
(* RiskScorer                                                              *)
(***************************************************************************)
\* self._weights, in millionths (0.30, 0.30, 0.20, 0.20)
WeightEventSeverity == 300000
WeightSupplierCriticality == 300000
WeightFinancialExposure == 200000
WeightGeographicRisk == 200000

\* self._weights: the floats the four literals denote
Weights ==
    [ event_severity |-> Float(WeightEventSeverity),
      supplier_criticality |-> Float(WeightSupplierCriticality),
      financial_exposure |-> Float(WeightFinancialExposure),
      geographic_risk |-> Float(WeightGeographicRisk) ]

\* self._weights[...] * score: the float product of a weight and a score
Weighted(w, s) == FMul(w, s)

HalfWeight == 500000

\* the floats 1.0 and 0.5
FloatOne == Float(One)
FloatHalf == Float(HalfWeight)

\* self._severity_values
SeverityValues ==
    [ critical |-> Float(One), high |-> Float(750000),
      medium |-> Float(500000), low |-> Float(250000) ]

\* self._severity_values.get(severity, 0.5)
SeverityValue(severity) == Get(SeverityValues, severity, FloatHalf)

\* self._criticality_values, by the value of the SupplierCriticality member
CriticalityValues ==
    [ critical |-> Float(One), high |-> Float(750000),
      medium |-> Float(500000), low |-> Float(250000) ]

CriticalityValue_CriticalAsHigh(c) ==
    Get(CriticalityValues, IF c = "critical" THEN "high" ELSE c, FloatHalf)

\* self._criticality_values.get(s.criticality, 0.5)
CriticalityValue(c) == Get(CriticalityValues, c, FloatHalf)

\* min(1.0, (severity_value * half + impact_score * half) * confidence)
SeverityScore(severity_value, impact_score, confidence, half) ==
    FMin(FloatOne, FMul(FAdd(FMul(severity_value, half), FMul(impact_score, half)),
                        confidence))

\* _calculate_severity_score: min(1.0, (severity_value * 0.5 +
\* impact_score * 0.5) * confidence), a float; the event's confidence and
\* impact_score are literals in millionths
CalculateSeverityScore(e) ==
    SeverityScore(SeverityValue(Get(e, "severity", "medium")),
                  Float(Get(e, "impact_score", HalfWeight)),
                  Float(Get(e, "confidence", One)),
                  FloatHalf)

\* max(self._criticality_values.get(s.criticality, 0.5) for s in suppliers)
RECURSIVE MaxCriticality(_)
MaxCriticality(suppliers) ==
    IF Len(suppliers) = 1 THEN CriticalityValue(Supplier(suppliers[1]).criticality)
    ELSE FMax(CriticalityValue(Supplier(suppliers[1]).criticality),
              MaxCriticality(Tail(suppliers)))

CountBonusCap == 200000
CountBonusStep == 50000

\* the floats 0.2 and 0.05
CountBonusLimits == [ cap |-> Float(CountBonusCap), step |-> Float(CountBonusStep) ]

\* min(0.2, len(suppliers) * 0.05)
CountBonusWithin(limits, count) ==
    FMin(limits.cap, FMul(FloatOfInt(count), limits.step))

CountBonus(suppliers) == CountBonusWithin(CountBonusLimits, Len(suppliers))

CalculateCriticalityScore_NoClamp(suppliers) ==
    IF suppliers = <<>> THEN FloatZero
    ELSE FAdd(MaxCriticality(suppliers), CountBonus(suppliers))

\* 0.0 for no supplier, else min(1.0, max_criticality + count_bonus), a float
CalculateCriticalityScore(suppliers) ==
    IF suppliers = <<>> THEN FloatZero
    ELSE FMin(FloatOne, FAdd(MaxCriticality(suppliers), CountBonus(suppliers)))

RECURSIVE TotalSpend(_)
TotalSpend(suppliers) ==
    IF suppliers = <<>> THEN 0
    ELSE Supplier(suppliers[1]).annual_spend + TotalSpend(Tail(suppliers))

SpendHigh == 10000000
SpendMedium == 5000000
SpendLow == 1000000

\* the floats _calculate_financial_score returns: 1.0, 0.7, 0.4, 0.2
FinancialScores ==
    [ high |-> Float(One), medium |-> Float(700000),
      low |-> Float(400000), floor |-> Float(200000) ]

\* the step of the total spend, with exclusive boundaries
FinancialStep_Exclusive(total_spend, scores) ==
    IF total_spend > SpendHigh THEN scores.high
    ELSE IF total_spend > SpendMedium THEN scores.medium
    ELSE IF total_spend > SpendLow THEN scores.low
    ELSE scores.floor

\* the step of the total spend
FinancialStep(total_spend, scores) ==
    IF total_spend >= SpendHigh THEN scores.high
    ELSE IF total_spend >= SpendMedium THEN scores.medium
    ELSE IF total_spend >= SpendLow THEN scores.low
    ELSE scores.floor

CalculateFinancialScore_FloorWhenEmpty(suppliers) ==
    FinancialStep(TotalSpend(suppliers), FinancialScores)

CalculateFinancialScore_ExclusiveBoundary(suppliers) ==
    IF suppliers = <<>> THEN FloatZero
    ELSE FinancialStep_Exclusive(TotalSpend(suppliers), FinancialScores)

\* _calculate_financial_score: 0.0 for no supplier, else the step of the
\* total spend
CalculateFinancialScore(suppliers) ==
    IF suppliers = <<>> THEN FloatZero
    ELSE FinancialStep(TotalSpend(suppliers), FinancialScores)

UrgencyImmediateCriticality == 900000

\* the floats 0.8, 0.9, 0.6 and 0.4 of _determine_urgency
UrgencyThresholds ==
    [ immediate |-> Float(800000),
      criticality |-> Float(UrgencyImmediateCriticality),
      short_term |-> Float(600000),
      medium_term |-> Float(400000) ]

\* the urgency of a composite score alone
UrgencyOfComposite(composite_score, thresholds) ==
    IF FGe(composite_score, thresholds.immediate) THEN "immediate"
    ELSE IF FGe(composite_score, thresholds.short_term) THEN "short_term"
    ELSE IF FGe(composite_score, thresholds.medium_term) THEN "medium_term"
    ELSE "long_term"

\* the urgency of a composite score and a criticality score
UrgencyOf(composite_score, criticality_score, thresholds) ==
    IF FGe(composite_score, thresholds.immediate)
       \/ FGe(criticality_score, thresholds.criticality)
    THEN "immediate"
    ELSE IF FGe(composite_score, thresholds.short_term) THEN "short_term"
    ELSE IF FGe(composite_score, thresholds.medium_term) THEN "medium_term"
    ELSE "long_term"

DetermineUrgency_CompositeOnly(composite_score, criticality_score) ==
    UrgencyOfComposite(composite_score, UrgencyThresholds)

\* _determine_urgency, on the two floats
DetermineUrgency(composite_score, criticality_score) ==
    UrgencyOf(composite_score, criticality_score, UrgencyThresholds)

WeeksPerYear == 52
ExtraWeeks == 3
MoneyDigits == 2

\* round(total_spend / 52 * (1 + risk_score * 3), 2), in cents, for a total
\* spend and an amount in cents below 2^31; the int 0 for no supplier
EstimateFinancialImpact(suppliers, risk_score) ==
    IF suppliers = <<>> THEN 0
    ELSE PyRound(FMul(FloatOfRatio(TotalSpend(suppliers), WeeksPerYear),
                      FAdd(FloatOne, FMul(risk_score, FloatOfInt(ExtraWeeks)))),
                 MoneyDigits)

\* severity_delays.get(severity, 3)
SeverityDelay(severity) ==
    CASE severity = "critical" -> 14
      [] severity = "high"     -> 7
      [] severity = "medium"   -> 3
      [] severity = "low"      -> 1
      [] OTHER                 -> 3

\* int(base_delay * (1 + risk_score))
EstimateDelayDays(e, risk_score) ==
    PyInt(FMul(FloatOfInt(SeverityDelay(Get(e, "severity", "medium"))),
               FAdd(FloatOne, risk_score)))

\* the weighted sum of the four component scores: the four float products
\* added from left to right
WeightedSumWith(weights, severity_score, criticality_score, financial_score, geo_score) ==
    FAdd(FAdd(FAdd(Weighted(weights.event_severity, severity_score),
                   Weighted(weights.supplier_criticality, criticality_score)),
              Weighted(weights.financial_exposure, financial_score)),
         Weighted(weights.geographic_risk, geo_score))

WeightedSum(severity_score, criticality_score, financial_score, geo_score) ==
    WeightedSumWith(Weights, severity_score, criticality_score, financial_score, geo_score)

\* the composite score of calculate_risk_score, before rounding
CompositeScore(e, suppliers, geographic_risk_factor) ==
    WeightedSum(CalculateSeverityScore(e), CalculateCriticalityScore(suppliers),
                CalculateFinancialScore(suppliers), Float(geographic_risk_factor))

ScoreDigits == 3

\* round(x, 3) of a float, as the decimal literal of the result, in
\* millionths
Rounded3(x) == PyRound(x, ScoreDigits) * (One \div 10^ScoreDigits)

\* calculate_risk_score: the dict returned, for the locals composite_score,
\* severity_score, criticality_score, financial_score and geo_score.  The
\* level, the urgency, the financial impact and the delay are computed
\* from the unrounded composite; the scores stored are rounded to three
\* places.
RiskScoreResult(e, suppliers, composite_score, severity_score, criticality_score, financial_score, geo_score) ==
    [ composite_score |-> Rounded3(composite_score),
      risk_level |-> FromScore(composite_score),
      mitigation_urgency |-> DetermineUrgency(composite_score, criticality_score),
      component_scores |->
          [ severity |-> Rounded3(severity_score),
            supplier_criticality |-> Rounded3(criticality_score),
            financial_exposure |-> Rounded3(financial_score),
            geographic |-> Rounded3(geo_score) ],
      estimated_financial_impact |->
          EstimateFinancialImpact(suppliers, composite_score),
      estimated_delay_days |-> EstimateDelayDays(e, composite_score) ]

\* the result for the four component scores
RiskScoreOfComponents(e, suppliers, severity_score, criticality_score, financial_score, geo_score) ==
    RiskScoreResult(e, suppliers,
                    WeightedSum(severity_score, criticality_score, financial_score, geo_score),
                    severity_score, criticality_score, financial_score, geo_score)

CalculateRiskScore(e, suppliers, geographic_risk_factor) ==
    RiskScoreOfComponents(e, suppliers,
                          CalculateSeverityScore(e),
                          CalculateCriticalityScore(suppliers),
                          CalculateFinancialScore(suppliers),
                          Float(geographic_risk_factor))

\* get_risk_type: category_mapping.get(category, RiskType.OPERATIONAL)
GetRiskType(e) ==
    LET category == Get(e, "category", "other")
    IN  CASE category = "logistics"        -> "logistics"
          [] category = "natural_disaster" -> "supply"
          [] category = "labor"            -> "operational"
          [] category = "infrastructure"   -> "logistics"
          [] category = "geopolitical"     -> "geopolitical"
          [] category = "economic"         -> "financial"
          [] OTHER                         -> "operational"

(***************************************************************************)
(* Risk                                                                    *)
(***************************************************************************)
\* Risk.__init__: risk_score and confidence are clamped, the rest is stored
\* (risk_id stands for the uuid; title and description are omitted)
NewRisk(risk_id, risk_score, risk_level, risk_type, affected_suppliers, mitigation_urgency, estimated_financial_impact, estimated_delay_days, confidence) ==
    [ risk_id |-> risk_id,
      risk_score |-> Clamp01(risk_score),
      risk_level |-> risk_level,
      risk_type |-> risk_type,
      affected_suppliers |-> affected_suppliers,
      mitigation_urgency |-> mitigation_urgency,
      estimated_financial_impact |-> estimated_financial_impact,
      estimated_delay_days |-> estimated_delay_days,
      confidence |-> Clamp01(confidence) ]

\* Risk.has_critical_suppliers
HasCriticalSuppliers(r) ==
    \E i \in DOMAIN r.affected_suppliers :
        Supplier(r.affected_suppliers[i]).criticality = "critical"

\* RiskAssessment.__init__: `risks or []`
NewRiskAssessment(risks) == risks

\* RiskAssessment.add: self.risks.append(risk)
AddRisk(risks, r) == Append(risks, r)

\* the Risk built from a score result by the analysis loop
RiskFromScoreResult(e, suppliers, score_result) ==
    NewRisk(1, score_result.composite_score, score_result.risk_level, GetRiskType(e),
            suppliers, score_result.mitigation_urgency,
            score_result.estimated_financial_impact,
            score_result.estimated_delay_days, Get(e, "confidence", One))


(***************************************************************************)
(* Input domains                                                           *)
(***************************************************************************)
\* a dict with at most the one key `key`
Optional(key, values) == {<<>>} \cup {key :> v : v \in values}

\* severity strings: the four known ones and one the tables do not hold
SeverityInputs == {"critical", "high", "medium", "low", "severe"}
\* confidence, impact_score and geographic factor, in millionths
ConfidenceInputs == {0, 900000, 999999}
ImpactScoreInputs == {800000, One}
CategoryInputs == {"logistics"}
GeoInputs == {0, 298000, 500000, One}

ScoringEvents ==
    { s @@ c @@ i @@ k :
        s \in Optional("severity", SeverityInputs),
        c \in Optional("confidence", ConfidenceInputs),
        i \in Optional("impact_score", ImpactScoreInputs),
        k \in Optional("category", CategoryInputs) }

\* longest affected-supplier list drawn
MaxAffected == 2

RECURSIVE SortedSeq(_)
SortedSeq(S) ==
    IF S = {} THEN <<>>
    ELSE LET m == CHOOSE x \in S : \A y \in S : x <= y
         IN  <<m>> \o SortedSeq(S \ {m})

\* supplier lists in database order, as find_affected_suppliers returns them
SupplierLists ==
    { SortedSeq(S) : S \in { T \in SUBSET DOMAIN SIMULATED_SUPPLIERS :
                                 Cardinality(T) <= MaxAffected } }

\* the suppliers scored: Rotterdam Logistics BV (critical, 3,000,000),
\* Japan Precision Industries (critical, 8,000,000), Taiwan Semiconductor
\* (critical, 12,000,000) and Kolkata Port Services (medium, 800,000)
ScoredSuppliers == {2, 6, 8, 9}

ScoredLists ==
    { a \in SupplierLists : \A k \in DOMAIN a : a[k] \in ScoredSuppliers }

(***************************************************************************)
(* Scoring pipeline (one pass of the analysis loop, on a new assessment):  *)
(*   calculate_risk_score, then Risk(...) built from its result, then      *)
(*   risk_assessment.add(risk)                                             *)
(***************************************************************************)
\* of the classification variables, the pipeline uses the assessment only
NewAssessmentOnly ==
    /\ assessment = NewRiskAssessment(<<>>)
    /\ classifier = None /\ history = None /\ matrix = None

InitScoring ==
    /\ pc = "start"
    /\ event \in ScoringEvents
    /\ affected \in ScoredLists
    /\ geo \in GeoInputs
    /\ result = None
    /\ risk = None
    /\ NoLevel /\ NoAlerting /\ NewAssessmentOnly /\ NoImpact
    /\ NoExt

DoCalculateRiskScore ==
    /\ pc = "start"
    /\ result' = CalculateRiskScore(event, affected, geo)
    /\ pc' = "scored"
    /\ UNCHANGED <<event, affected, geo, risk>>
    /\ UNCHANGED <<levelVars, alertVars, classifyVars, impactVars>>
    /\ UNCHANGED extVars

DoCreateRisk ==
    /\ pc = "scored"
    /\ risk' = RiskFromScoreResult(event, affected, result)
    /\ pc' = "risk"
    /\ UNCHANGED <<scoringVars, levelVars, alertVars, classifyVars, impactVars>>
    /\ UNCHANGED extVars

\* risk_assessment.add(risk)
DoAddRisk ==
    /\ pc = "risk"
    /\ assessment' = AddRisk(assessment, risk)
    /\ pc' = "added"
    /\ UNCHANGED <<scoringVars, risk, levelVars, alertVars, impactVars>>
    /\ UNCHANGED <<classifier, history, matrix>>
    /\ UNCHANGED extVars

Next ==
    \/ DoCalculateRiskScore
    \/ DoCreateRisk
    \/ DoAddRisk

Spec == InitScoring /\ [][Next]_vars


(***************************************************************************)
(* RiskLevel.from_score applied to one score                               *)
(***************************************************************************)
\* scores in thousandths from -0.1 to 1.1, and the millionths next to each
\* threshold
ScoreInputs ==
    {k * 1000 : k \in -100..1100}
    \cup {b + d : b \in {LevelMedium, LevelHigh, LevelCritical}, d \in {-1, 1}}

InitLevel ==
    /\ pc = "start"
    /\ score \in ScoreInputs
    /\ level = None
    /\ risk = None
    /\ NoScoring /\ NoAlerting /\ NoClassifying /\ NoImpact
    /\ NoExt

DoFromScore ==
    /\ pc = "start"
    /\ level' = FromScore(Float(score))
    /\ pc' = "level"
    /\ UNCHANGED <<score, risk, scoringVars, alertVars, classifyVars, impactVars>>
    /\ UNCHANGED extVars

NextLevel == DoFromScore

SpecLevel == InitLevel /\ [][NextLevel]_vars

(***************************************************************************)
(* Properties of RiskLevel.from_score                                      *)
(***************************************************************************)
\* C1: for every score s, from_score(s) is CRITICAL iff s >= 0.8, HIGH iff
\* 0.6 <= s < 0.8, MEDIUM iff 0.4 <= s < 0.6 and LOW iff s < 0.4; the
\* boundary values belong to the higher tier.
C1_FromScoreTiers ==
    pc = "level" =>
        /\ level = "critical" <=> score >= 800000
        /\ level = "high" <=> (600000 <= score /\ score < 800000)
        /\ level = "medium" <=> (400000 <= score /\ score < 600000)
        /\ level = "low" <=> score < 400000

C1_Witness ==
    pc = "level" /\ score = 800000 /\ level = "critical"

(***************************************************************************)
(* Properties of RiskScorer.calculate_risk_score                           *)
(***************************************************************************)
Scored == pc \in {"scored", "risk"}

InUnit(x) == 0 <= x /\ x <= One

\* 0.0 <= x <= 1.0 for a float
InUnitFloat(x) == FGe(x, FloatZero) /\ FGe(FloatOne, x)

\* the weights 0.30, 0.30, 0.20 and 0.20
C4_Weights == <<Float(300000), Float(300000), Float(200000), Float(200000)>>

\* C4: the composite is 0.30*severity + 0.30*criticality + 0.20*financial
\* + 0.20*geographic, the weights sum to 1.0, and for inputs in [0,1] every
\* component score and the composite score lie in [0,1].
C4_CompositeInUnitRange ==
    Scored =>
        LET severity == CalculateSeverityScore(event)
            criticality == CalculateCriticalityScore(affected)
            financial == CalculateFinancialScore(affected)
            composite ==
                FAdd(FAdd(FAdd(FMul(C4_Weights[1], severity),
                               FMul(C4_Weights[2], criticality)),
                          FMul(C4_Weights[3], financial)),
                     FMul(C4_Weights[4], Float(geo)))
        IN  /\ WeightEventSeverity + WeightSupplierCriticality
                 + WeightFinancialExposure + WeightGeographicRisk = One
            /\ FAdd(FAdd(FAdd(Weights.event_severity, Weights.supplier_criticality),
                          Weights.financial_exposure),
                     Weights.geographic_risk) = FloatOne
            /\ result.composite_score = Rounded3(composite)
            /\ InUnitFloat(composite)
            /\ InUnitFloat(severity)
            /\ InUnitFloat(criticality)
            /\ InUnitFloat(financial)
            /\ InUnit(result.composite_score)
            /\ InUnit(result.component_scores.severity)
            /\ InUnit(result.component_scores.supplier_criticality)
            /\ InUnit(result.component_scores.financial_exposure)
            /\ InUnit(result.component_scores.geographic)

\* every component at its maximum: the composite reaches exactly 1.0
C4_Witness ==
    /\ pc = "scored"
    /\ result.component_scores.severity = One
    /\ result.component_scores.supplier_criticality = One
    /\ result.component_scores.financial_exposure = One
    /\ result.component_scores.geographic = One
    /\ result.composite_score = One

\* 0.8, 0.6 and 0.4 for the composite score, 0.9 for the criticality score
C5_Bounds == <<Float(800000), Float(600000), Float(400000), Float(900000)>>

\* the urgency rule of C5, on the composite and criticality scores
C5_UrgencyRule ==
    LET composite == CompositeScore(event, affected, geo)
        criticality == CalculateCriticalityScore(affected)
        urgency == result.mitigation_urgency
        immediate ==
            FGe(composite, C5_Bounds[1]) \/ FGe(criticality, C5_Bounds[4])
    IN  /\ urgency = "immediate" <=> immediate
        /\ urgency = "short_term" <=>
             (~immediate /\ FGe(composite, C5_Bounds[2]))
        /\ urgency = "medium_term" <=>
             (~immediate /\ FLess(composite, C5_Bounds[2])
              /\ FGe(composite, C5_Bounds[3]))
        /\ urgency = "long_term" <=>
             (~immediate /\ FLess(composite, C5_Bounds[3]))

\* the scenario of C5: critical event, confidence 0.9, impact 0.8, one
\* CRITICAL supplier with spend 12,000,000, geo factor 0.5
C5_Scenario ==
    /\ Get(event, "severity", "medium") = "critical"
    /\ Get(event, "confidence", One) = 900000
    /\ Get(event, "impact_score", HalfWeight) = 800000
    /\ Len(affected) = 1
    /\ Supplier(affected[1]).criticality = "critical"
    /\ Supplier(affected[1]).annual_spend = 12000000
    /\ geo = 500000

\* C5 as stated: the urgency rule, and in the scenario composite = 0.773,
\* risk_level = HIGH and urgency = IMMEDIATE.
C5_Original ==
    Scored =>
        /\ C5_UrgencyRule
        /\ C5_Scenario =>
             /\ result.composite_score = 773000
             /\ result.risk_level = "high"
             /\ result.mitigation_urgency = "immediate"

\* C5 (amended): the urgency rule holds; urgency is IMMEDIATE whenever the
\* criticality score is >= 0.9, whatever the risk level; and in the
\* scenario composite = 0.843, risk_level = CRITICAL, urgency = IMMEDIATE.
C5_UrgencyAmended ==
    Scored =>
        /\ C5_UrgencyRule
        /\ FGe(CalculateCriticalityScore(affected), C5_Bounds[4])
             => result.mitigation_urgency = "immediate"
        /\ C5_Scenario =>
             /\ result.composite_score = 843000
             /\ result.risk_level = "critical"
             /\ result.mitigation_urgency = "immediate"

\* urgency IMMEDIATE through criticality alone, with a risk level below
\* CRITICAL
C5_Witness ==
    /\ pc = "scored"
    /\ result.mitigation_urgency = "immediate"
    /\ result.risk_level = "high"
    /\ FLess(CompositeScore(event, affected, geo), C5_Bounds[1])
    /\ FGe(CalculateCriticalityScore(affected), C5_Bounds[4])

\* C6 as stated: with no affected suppliers the supplier_criticality
\* component is 0 and the financial_exposure component is 0.2.
C6_Original ==
    (Scored /\ affected = <<>>) =>
        /\ result.component_scores.supplier_criticality = 0
        /\ result.component_scores.financial_exposure = 200000

\* C6 (amended): with no affected suppliers the supplier_criticality
\* component is 0 and the financial_exposure component is 0 as well; the
\* 0.2 floor applies only to a non-empty list whose spend is below 1,000,000.
C6_EmptySuppliersScoreZero ==
    Scored =>
        /\ affected = <<>> =>
             /\ result.component_scores.supplier_criticality = 0
             /\ result.component_scores.financial_exposure = 0
        /\ (affected # <<>> /\ TotalSpend(affected) < 1000000) =>
             result.component_scores.financial_exposure = 200000

C6_Witness ==
    /\ pc = "scored"
    /\ affected = <<>>
    /\ result.component_scores.financial_exposure = 0
    /\ result.component_scores.supplier_criticality = 0

\* C7: the risk_level of every score result, and of the Risk built from it,
\* is the level RiskLevel.from_score gives for its score.
C7_LevelMatchesScore ==
    /\ Scored => result.risk_level = FromScore(Float(result.composite_score))
    /\ pc \in {"risk", "added"} => risk.risk_level = FromScore(Float(risk.risk_score))


(***************************************************************************)
(* AlertGenerator                                                          *)
(***************************************************************************)
DefaultCriticalThreshold == 800000
DefaultHighThreshold == 600000
DefaultMediumThreshold == 400000

\* AlertGenerator.__init__
NewAlertGenerator(critical_threshold, high_threshold, medium_threshold) ==
    [ critical_threshold |-> critical_threshold,
      high_threshold |-> high_threshold,
      medium_threshold |-> medium_threshold ]

DefaultAlertGenerator ==
    NewAlertGenerator(DefaultCriticalThreshold, DefaultHighThreshold,
                      DefaultMediumThreshold)

\* Python None returned in place of an Alert / of a priority
NoAlert == [none |-> TRUE]
NoPriority == "None"

IsAlert(a) == "priority" \in DOMAIN a

DeterminePriority_NoEscalation(g, r) ==
    IF r.risk_level = "critical" \/ r.risk_score >= g.critical_threshold THEN "P1"
    ELSE IF r.risk_level = "high" \/ r.risk_score >= g.high_threshold THEN "P2"
    ELSE IF r.risk_level = "medium" \/ r.risk_score >= g.medium_threshold THEN "P3"
    ELSE IF r.risk_level = "low" THEN "P4"
    ELSE NoPriority

DeterminePriority_NoLowAlert(g, r) ==
    IF r.risk_level = "critical" \/ r.risk_score >= g.critical_threshold THEN "P1"
    ELSE IF r.risk_level = "high" \/ r.risk_score >= g.high_threshold
    THEN IF HasCriticalSuppliers(r) THEN "P1" ELSE "P2"
    ELSE IF r.risk_level = "medium" \/ r.risk_score >= g.medium_threshold THEN "P3"
    ELSE NoPriority

\* AlertGenerator._determine_priority
DeterminePriority(g, r) ==
    IF r.risk_level = "critical" \/ r.risk_score >= g.critical_threshold THEN "P1"
    ELSE IF r.risk_level = "high" \/ r.risk_score >= g.high_threshold
    THEN IF HasCriticalSuppliers(r) THEN "P1" ELSE "P2"
    ELSE IF r.risk_level = "medium" \/ r.risk_score >= g.medium_threshold THEN "P3"
    ELSE IF r.risk_level = "low" THEN "P4"
    ELSE NoPriority

\* self._channel_map.get(priority, [DASHBOARD])
ChannelMap(priority) ==
    CASE priority = "P1" -> <<"dashboard", "email", "sms">>
      [] priority = "P2" -> <<"dashboard", "email">>
      [] priority = "P3" -> <<"dashboard", "email">>
      [] priority = "P4" -> <<"dashboard">>
      [] OTHER           -> <<"dashboard">>

\* self._recipient_map.get(priority, [])
RecipientMap(priority) ==
    CASE priority = "P1" -> <<"exec-team", "supply-chain-vp", "risk-management">>
      [] priority = "P2" -> <<"supply-chain-director", "procurement-lead">>
      [] priority = "P3" -> <<"supply-chain-manager", "category-manager">>
      [] priority = "P4" -> <<"supply-chain-analyst">>
      [] OTHER           -> <<>>

\* AlertGenerator._generate_action_required
GenerateActionRequired(r) ==
    CASE r.mitigation_urgency = "immediate" ->
             "Immediate action required within 24 hours"
      [] r.mitigation_urgency = "short_term" -> "Action required within 1 week"
      [] r.mitigation_urgency = "medium_term" -> "Plan mitigation within 1 month"
      [] r.mitigation_urgency = "long_term" -> "Add to risk register for monitoring"
      [] OTHER -> "Review and assess appropriate response"

\* Alert.__init__ (title and message are display text and are left out;
\* `channels or [DASHBOARD]` and `recipients or []`)
NewAlert(r, priority, channels, recipients, action_required) ==
    [ risk |-> r,
      priority |-> priority,
      channels |-> IF channels = <<>> THEN <<"dashboard">> ELSE channels,
      recipients |-> recipients,
      action_required |-> action_required,
      acknowledged |-> FALSE,
      acknowledged_by |-> None,
      acknowledged_at |-> None ]

Acknowledge_KeepFirst(a, user, now) ==
    IF a.acknowledged THEN a
    ELSE [a EXCEPT !.acknowledged = TRUE,
                   !.acknowledged_by = user,
                   !.acknowledged_at = now]

\* Alert.acknowledge, called at time `now`
Acknowledge(a, user, now) ==
    [a EXCEPT !.acknowledged = TRUE,
              !.acknowledged_by = user,
              !.acknowledged_at = now]

\* Alert.to_dict (identifiers, display text and creation time left out)
AlertToDict(a) ==
    [ risk_id |-> a.risk.risk_id,
      priority |-> a.priority,
      channels |-> a.channels,
      recipients |-> a.recipients,
      action_required |-> a.action_required,
      acknowledged |-> a.acknowledged,
      acknowledged_by |-> a.acknowledged_by,
      acknowledged_at |-> a.acknowledged_at ]

\* AlertGenerator.generate_alert
GenerateAlert(g, r) ==
    LET priority == DeterminePriority(g, r)
    IN  IF priority = NoPriority THEN NoAlert
        ELSE NewAlert(r, priority, ChannelMap(priority), RecipientMap(priority),
                      GenerateActionRequired(r))

(***************************************************************************)
(* generate_alert on one Risk                                              *)
(***************************************************************************)
Urgencies == {"immediate", "short_term", "medium_term", "long_term"}

\* risk_score arguments of Risk(...): the thresholds, values between them
\* and values outside [0,1], which the constructor clamps
RiskScoreInputs ==
    {-500000, 0, 390000, 400000, 590000, 600000, 650000, 790000, 800000, One,
     1500000}

\* thresholds an AlertGenerator is configured with
ThresholdInputs == {300000, 700000, 1100000}

AlertGenerators ==
    {DefaultAlertGenerator}
    \cup { NewAlertGenerator(c, h, m) :
             c \in ThresholdInputs, h \in ThresholdInputs, m \in ThresholdInputs }

AlertRisks ==
    { NewRisk(1, s, l, "supply", a, u, 0, 0, One) :
        s \in RiskScoreInputs, l \in RiskLevels, a \in SupplierLists,
        u \in Urgencies }

InitAlert ==
    /\ pc = "start"
    /\ risk \in AlertRisks
    /\ gen \in AlertGenerators
    /\ alert = NoAlert
    /\ NoLevel /\ NoScoring /\ NoClassifying /\ NoImpact
    /\ NoExt

DoGenerateAlert ==
    /\ pc = "start"
    /\ alert' = GenerateAlert(gen, risk)
    /\ pc' = "alerted"
    /\ UNCHANGED <<risk, gen, levelVars, scoringVars, classifyVars, impactVars>>
    /\ UNCHANGED extVars

NextAlert == DoGenerateAlert

SpecAlert == InitAlert /\ [][NextAlert]_vars

(***************************************************************************)
(* Properties of AlertGenerator.generate_alert                             *)
(***************************************************************************)
\* C2: with the default thresholds the priority is, by first match: P1 if
\* the level is CRITICAL or the score >= 0.8; else, if the level is HIGH or
\* the score >= 0.6, P1 with a CRITICAL-criticality affected supplier and P2
\* without; else P3 if the level is MEDIUM or the score >= 0.4; else P4.
C2_DefaultPriority ==
    (pc = "alerted" /\ gen = DefaultAlertGenerator) =>
        /\ IsAlert(alert)
        /\ alert.priority =
             IF risk.risk_level = "critical" \/ risk.risk_score >= 800000 THEN "P1"
             ELSE IF risk.risk_level = "high" \/ risk.risk_score >= 600000
             THEN IF \E i \in DOMAIN risk.affected_suppliers :
                        Supplier(risk.affected_suppliers[i]).criticality = "critical"
                  THEN "P1" ELSE "P2"
             ELSE IF risk.risk_level = "medium" \/ risk.risk_score >= 400000 THEN "P3"
             ELSE "P4"

\* a HIGH-level risk with score 0.65 and one CRITICAL supplier gets P1
C2_Witness ==
    /\ pc = "alerted"
    /\ gen = DefaultAlertGenerator
    /\ risk.risk_level = "high"
    /\ risk.risk_score = 650000
    /\ Len(risk.affected_suppliers) = 1
    /\ Supplier(risk.affected_suppliers[1]).criticality = "critical"
    /\ alert.priority = "P1"

\* C3: generate_alert never returns None for a risk whose level is LOW,
\* MEDIUM, HIGH or CRITICAL, whatever its score and the thresholds: an
\* Alert of priority P1..P4 is produced.
C3_AlwaysAnAlert ==
    pc = "alerted" =>
        /\ IsAlert(alert)
        /\ alert.priority \in {"P1", "P2", "P3", "P4"}

\* a LOW risk whose score is below every threshold still gets a P4 alert
C3_Witness ==
    /\ pc = "alerted"
    /\ risk.risk_level = "low"
    /\ risk.risk_score < gen.medium_threshold
    /\ risk.risk_score < gen.high_threshold
    /\ risk.risk_score < gen.critical_threshold
    /\ gen # DefaultAlertGenerator
    /\ IsAlert(alert)
    /\ alert.priority = "P4"


(***************************************************************************)
(* RiskClassifier                                                          *)
(***************************************************************************)
\* RiskClassifier.__init__: self._mitigation_strategies (RiskType.QUALITY
\* has no entry)
NewRiskClassifier ==
    "supply" :> << "Activate backup suppliers",
                   "Increase safety stock levels",
                   "Expedite existing orders",
                   "Source from alternative regions" >>
    @@ "logistics" :> << "Reroute shipments via alternative routes",
                         "Switch transportation modes",
                         "Pre-position inventory at alternative hubs",
                         "Coordinate with logistics partners" >>
    @@ "financial" :> << "Review hedging positions",
                         "Assess cost pass-through options",
                         "Negotiate payment terms",
                         "Evaluate pricing adjustments" >>
    @@ "operational" :> << "Implement contingency procedures",
                           "Cross-train staff for critical functions",
                           "Review BCP documentation",
                           "Coordinate with operations teams" >>
    @@ "geopolitical" :> << "Monitor regulatory developments",
                            "Diversify supplier base",
                            "Review compliance requirements",
                            "Engage government affairs team" >>

\* level_base.get(risk.risk_level, 7)
LevelBase(risk_level) ==
    CASE risk_level = "critical" -> 1
      [] risk_level = "high"     -> 4
      [] risk_level = "medium"   -> 7
      [] risk_level = "low"      -> 10
      [] OTHER                   -> 7

\* urgency_adjust.get(risk.mitigation_urgency, 0)
UrgencyAdjust(urgency) ==
    CASE urgency = "immediate"   -> -1
      [] urgency = "short_term"  -> 0
      [] urgency = "medium_term" -> 1
      [] urgency = "long_term"   -> 2
      [] OTHER                   -> 0

\* 1,000,000 dollars, in cents
FinancialImpactStep == 100000000

CalculatePriority_ImpactInclusive(r) ==
    LET base == LevelBase(r.risk_level)
        a0 == UrgencyAdjust(r.mitigation_urgency)
        a1 == IF HasCriticalSuppliers(r) THEN a0 - 1 ELSE a0
        a2 == IF r.estimated_financial_impact >= FinancialImpactStep
              THEN a1 - 1 ELSE a1
    IN  Max(1, base + a2)

\* RiskClassifier._calculate_priority
CalculatePriority(r) ==
    LET base == LevelBase(r.risk_level)
        a0 == UrgencyAdjust(r.mitigation_urgency)
        a1 == IF HasCriticalSuppliers(r) THEN a0 - 1 ELSE a0
        a2 == IF r.estimated_financial_impact > FinancialImpactStep
              THEN a1 - 1 ELSE a1
    IN  Max(1, base + a2)

\* RiskClassifier._get_priority_label
GetPriorityLabel(priority) ==
    IF priority <= 3 THEN "IMMEDIATE"
    ELSE IF priority <= 6 THEN "HIGH"
    ELSE IF priority <= 9 THEN "MEDIUM"
    ELSE "LOW"

\* seq[:n]
Prefix(seq, n) == SubSeq(seq, 1, Min(n, Len(seq)))

MaxStrategies == 3
MaxContactActions == 3

\* RiskClassifier._get_strategies: the list returned
GetStrategies(cls, r) == Prefix(Get(cls, r.risk_type, <<>>), MaxStrategies)

StrategiesAfterGet_Consumed(cls, r) ==
    IF r.risk_type \in DOMAIN cls /\ cls[r.risk_type] # <<>>
    THEN [cls EXCEPT ![r.risk_type] = Tail(@)]
    ELSE cls

\* RiskClassifier._get_strategies: self._mitigation_strategies afterwards
\* (strategies[:3] is a copy, the table is not written)
StrategiesAfterGet(cls, r) == cls

\* RiskClassifier._generate_action_items
GenerateActionItems(r, strategies) ==
    LET contacted == Prefix(r.affected_suppliers, MaxContactActions)
        contact_items ==
            [ i \in DOMAIN contacted |->
                [ action |-> "Contact " \o Supplier(contacted[i]).name
                               \o " for status update",
                  owner |-> "Procurement",
                  priority |-> i ] ]
        strategy_items ==
            [ i \in DOMAIN strategies |->
                [ action |-> strategies[i],
                  owner |-> "Supply Chain",
                  priority |-> Len(contact_items) + i ] ]
        items == contact_items \o strategy_items
    IN  Append(items, [ action |-> "Monitor situation for updates",
                        owner |-> "Risk Management",
                        priority |-> Len(items) + 1 ])

\* RiskClassifier._calculate_deadline
CalculateDeadline(urgency) ==
    CASE urgency = "immediate"   -> "Within 24 hours"
      [] urgency = "short_term"  -> "Within 1 week"
      [] urgency = "medium_term" -> "Within 1 month"
      [] urgency = "long_term"   -> "Within 3 months"
      [] OTHER                   -> "To be determined"

\* RiskClassifier._get_escalation_level
GetEscalationLevel(r) ==
    IF r.risk_level = "critical" THEN "Executive Leadership"
    ELSE IF r.risk_level = "high" /\ HasCriticalSuppliers(r) THEN "VP Supply Chain"
    ELSE IF r.risk_level = "high" THEN "Director Level"
    ELSE IF r.risk_level = "medium" THEN "Manager Level"
    ELSE "Team Lead"

\* RiskClassifier.classify_risk: the classification returned
ClassifyRisk(cls, r) ==
    LET priority == CalculatePriority(r)
        strategies == GetStrategies(cls, r)
        action_items == GenerateActionItems(r, strategies)
        deadline == CalculateDeadline(r.mitigation_urgency)
    IN  [ risk_id |-> r.risk_id,
          classification |->
              [ level |-> r.risk_level,
                type |-> r.risk_type,
                urgency |-> r.mitigation_urgency,
                priority |-> priority,
                priority_label |-> GetPriorityLabel(priority) ],
          response |->
              [ deadline |-> deadline,
                strategies |-> strategies,
                action_items |-> action_items ],
          escalation |->
              [ required |-> r.risk_level \in {"critical", "high"},
                level |-> GetEscalationLevel(r) ] ]

\* list.sort(key=lambda x: x["priority"]): a stable sort, by insertion
RECURSIVE InsertByPriority(_, _)
InsertByPriority(sorted, e) ==
    IF sorted = <<>> THEN <<e>>
    ELSE IF sorted[Len(sorted)].priority <= e.priority THEN Append(sorted, e)
    ELSE Append(InsertByPriority(SubSeq(sorted, 1, Len(sorted) - 1), e),
                sorted[Len(sorted)])

RECURSIVE SortByPriority(_)
SortByPriority(entries) ==
    IF entries = <<>> THEN <<>>
    ELSE InsertByPriority(SortByPriority(SubSeq(entries, 1, Len(entries) - 1)),
                          entries[Len(entries)])

\* the classifier's strategy table after classify_risk on risks[1..n] in turn
RECURSIVE StrategiesAfterAll(_, _, _)
StrategiesAfterAll(cls, risks, n) ==
    IF n = 0 THEN cls
    ELSE StrategiesAfterGet(StrategiesAfterAll(cls, risks, n - 1), risks[n])

\* create_risk_matrix: the entry appended for the i-th risk of the assessment
MatrixEntry(cls, risks, i) ==
    LET r == risks[i]
        c == ClassifyRisk(StrategiesAfterAll(cls, risks, i - 1), r)
    IN  [ risk_id |-> r.risk_id,
          type |-> r.risk_type,
          score |-> r.risk_score,
          priority |-> c.classification.priority,
          affected_suppliers |-> Len(r.affected_suppliers),
          deadline |-> c.response.deadline ]

\* the entries of one level, in assessment order
RECURSIVE MatrixBucket(_, _, _, _)
MatrixBucket(cls, risks, n, lvl) ==
    IF n = 0 THEN <<>>
    ELSE LET rest == MatrixBucket(cls, risks, n - 1, lvl)
         IN  IF risks[n].risk_level = lvl
             THEN Append(rest, MatrixEntry(cls, risks, n))
             ELSE rest

CreateRiskMatrix_NoSort(cls, risks) ==
    [ lvl \in {"critical", "high", "medium", "low"} |->
        MatrixBucket(cls, risks, Len(risks), lvl) ]

\* RiskClassifier.create_risk_matrix
CreateRiskMatrix(cls, risks) ==
    [ lvl \in {"critical", "high", "medium", "low"} |->
        SortByPriority(MatrixBucket(cls, risks, Len(risks), lvl)) ]


(***************************************************************************)
(* Classification of an assessment: classify_risk, create_risk_matrix and  *)
(* generate_alert called in any order on the risks of one RiskAssessment   *)
(***************************************************************************)
\* classify_risk calls recorded per risk
MaxCalls == 2
\* risks in an assessment
MaxRisks == 2

NoClassification == [none |-> TRUE]
NoMatrix == [none |-> TRUE]

\* per risk: the number of classify_risk calls on it, the first and the
\* latest classification returned, whether another call was made since the
\* latest one (pending) and whether one was made between two of them
NewHistory(risks) ==
    [ i \in DOMAIN risks |->
        [ calls |-> 0, first |-> NoClassification, last |-> NoClassification,
          pending |-> FALSE, between |-> FALSE ] ]

\* another call has been made: note it for every risk already classified
NoteOtherCall(h) ==
    [ j \in DOMAIN h |-> IF h[j].calls > 0 THEN [h[j] EXCEPT !.pending = TRUE]
                         ELSE h[j] ]

\* estimated_financial_impact arguments, in cents: 0, exactly 1,000,000
\* dollars, one cent more, and 2,000,000 dollars
ImpactInputs == {0, 100000000, 100000001, 200000000}
RiskTypeInputs == {"supply", "quality"}

ClassifyRisks ==
    { NewRisk(1, 500000, l, t, a, u, f, 0, One) :
        l \in RiskLevels, t \in RiskTypeInputs, a \in SupplierLists,
        u \in Urgencies, f \in ImpactInputs }

\* a CRITICAL risk with four affected suppliers, two of them critical, and a
\* LOW risk with none, each of a type with and without strategy templates
AssessmentRisks ==
    { NewRisk(0, 900000, "critical", t, <<1, 2, 6, 8>>, "immediate", 200000000,
              20, One) : t \in RiskTypeInputs }
    \cup { NewRisk(0, 100000, "low", t, <<>>, "long_term", 0, 1, One) :
             t \in RiskTypeInputs }

\* each Risk of a list gets its own risk_id
WithIds(risks) == [ i \in DOMAIN risks |-> [risks[i] EXCEPT !.risk_id = i] ]

Assessments ==
    { WithIds(s) : s \in UNION { [1..n -> AssessmentRisks] : n \in 0..MaxRisks } }

ClassifierReady ==
    /\ pc = "ready"
    /\ classifier = NewRiskClassifier
    /\ history = NewHistory(assessment)
    /\ matrix = NoMatrix
    /\ gen = DefaultAlertGenerator
    /\ alert = NoAlert
    /\ risk = None
    /\ NoLevel /\ NoScoring /\ NoImpact
    /\ NoExt

InitClassify ==
    /\ assessment \in { <<r>> : r \in ClassifyRisks }
    /\ ClassifierReady

InitAssessment ==
    /\ assessment \in Assessments
    /\ ClassifierReady

DoClassifyRisk(i) ==
    /\ pc = "ready"
    /\ history[i].calls < MaxCalls
    /\ LET c == ClassifyRisk(classifier, assessment[i])
           h == NoteOtherCall(history)
       IN  history' =
             [ h EXCEPT ![i] =
                 [ calls |-> history[i].calls + 1,
                   first |-> IF history[i].calls = 0 THEN c ELSE history[i].first,
                   last |-> c,
                   pending |-> FALSE,
                   between |-> history[i].between \/ history[i].pending ] ]
    /\ classifier' = StrategiesAfterGet(classifier, assessment[i])
    /\ UNCHANGED <<pc, assessment, matrix, risk, alertVars>>
    /\ UNCHANGED <<levelVars, scoringVars, impactVars>>
    /\ UNCHANGED extVars

DoCreateRiskMatrix ==
    /\ pc = "ready"
    /\ matrix' = CreateRiskMatrix(classifier, assessment)
    /\ classifier' = StrategiesAfterAll(classifier, assessment, Len(assessment))
    /\ history' = NoteOtherCall(history)
    /\ UNCHANGED <<pc, assessment, risk, alertVars>>
    /\ UNCHANGED <<levelVars, scoringVars, impactVars>>
    /\ UNCHANGED extVars

DoGenerateAlertFor(i) ==
    /\ pc = "ready"
    /\ alert' = GenerateAlert(gen, assessment[i])
    /\ history' = NoteOtherCall(history)
    /\ UNCHANGED <<pc, gen, classifier, assessment, matrix, risk>>
    /\ UNCHANGED <<levelVars, scoringVars, impactVars>>
    /\ UNCHANGED extVars

NextClassify ==
    \/ \E i \in DOMAIN assessment : DoClassifyRisk(i)
    \/ DoCreateRiskMatrix
    \/ \E i \in DOMAIN assessment : DoGenerateAlertFor(i)

SpecClassify == InitClassify /\ [][NextClassify]_vars

SpecAssessment == InitAssessment /\ [][NextClassify]_vars

(***************************************************************************)
(* Properties of RiskClassifier.classify_risk                              *)
(***************************************************************************)
C9_Base(risk_level) ==
    CASE risk_level = "critical" -> 1
      [] risk_level = "high"     -> 4
      [] risk_level = "medium"   -> 7
      [] risk_level = "low"      -> 10

C9_Adjust(urgency) ==
    CASE urgency = "immediate"   -> -1
      [] urgency = "short_term"  -> 0
      [] urgency = "medium_term" -> 1
      [] urgency = "long_term"   -> 2

C9_Expected(r) ==
    LET c == IF \E i \in DOMAIN r.affected_suppliers :
                   Supplier(r.affected_suppliers[i]).criticality = "critical"
             THEN 1 ELSE 0
        f == IF r.estimated_financial_impact > 100000000 THEN 1 ELSE 0
        n == C9_Base(r.risk_level) + C9_Adjust(r.mitigation_urgency) - c - f
    IN  IF n < 1 THEN 1 ELSE n

\* C9: the priority number classify_risk computes is max(1, base +
\* urgency_adjust - c - f) with base 1/4/7/10 by level, urgency_adjust
\* -1/0/+1/+2 by urgency, c = 1 iff an affected supplier is CRITICAL and
\* f = 1 iff estimated_financial_impact > 1,000,000 (strictly); it is an
\* integer in 1..12.
C9_PriorityNumber ==
    \A i \in DOMAIN history :
        history[i].calls > 0 =>
            /\ history[i].last.classification.priority = C9_Expected(assessment[i])
            /\ history[i].last.classification.priority \in 1..12

\* the floor: a CRITICAL, IMMEDIATE risk with a critical supplier and an
\* impact above 1,000,000, whose unfloored number is -2
C9_Witness ==
    /\ history[1].calls > 0
    /\ assessment[1].risk_level = "critical"
    /\ assessment[1].mitigation_urgency = "immediate"
    /\ HasCriticalSuppliers(assessment[1])
    /\ assessment[1].estimated_financial_impact > 100000000
    /\ history[1].last.classification.priority = 1

\* C10: classify_risk called again on an unmodified Risk, with any other
\* classify_risk, create_risk_matrix or generate_alert calls in between,
\* returns the same priority number and the same action items in the same
\* order as the first time.
C10_ClassifyIdempotent ==
    \A i \in DOMAIN history :
        history[i].calls > 0 =>
            /\ history[i].last.classification.priority
                 = history[i].first.classification.priority
            /\ history[i].last.response.action_items
                 = history[i].first.response.action_items

\* a risk classified twice with other calls in between, after the other
\* risk was classified, the matrix built and an alert generated
C10_Witness ==
    /\ Len(assessment) >= 2
    /\ history[1].calls >= 2
    /\ history[1].between
    /\ history[2].calls >= 1
    /\ matrix # NoMatrix
    /\ IsAlert(alert)
    /\ Len(history[1].last.response.action_items) > 4


(***************************************************************************)
(* SupplierImpactAnalyzer                                                  *)
(***************************************************************************)
\* SupplierImpactAnalyzer.__init__: suppliers or get_simulated_suppliers()
NewImpactAnalyzer(suppliers) ==
    IF suppliers = <<>> THEN [i \in DOMAIN SIMULATED_SUPPLIERS |-> i]
    ELSE suppliers

\* SupplierImpactAnalyzer._check_geographic_match
CheckGeographicMatch(s, country, region, city) ==
    IF city # NoText /\ IsInCity(s, city) THEN TRUE
    ELSE IF region # NoText /\ IsInRegion(s, region) THEN TRUE
    ELSE IF country # NoText /\ IsInCountry(s, country) THEN TRUE
    ELSE FALSE

\* keyword_category_map of _check_category_match
KeywordCategoryMap == <<
    [ keyword |-> <<"p","o","r","t">>,
      categories |-> << <<"l","o","g","i","s","t","i","c","s">>,
                      <<"f","r","e","i","g","h","t">>,
                      <<"s","h","i","p","p","i","n","g">>,
                      <<"m","a","r","i","t","i","m","e">> >> ],
    [ keyword |-> <<"s","h","i","p","p","i","n","g">>,
      categories |-> << <<"l","o","g","i","s","t","i","c","s">>,
                      <<"f","r","e","i","g","h","t">>,
                      <<"m","a","r","i","t","i","m","e">> >> ],
    [ keyword |-> <<"f","r","e","i","g","h","t">>,
      categories |-> << <<"l","o","g","i","s","t","i","c","s">>,
                      <<"s","h","i","p","p","i","n","g">> >> ],
    [ keyword |-> <<"m","a","n","u","f","a","c","t","u","r","i","n","g">>,
      categories |-> << <<"c","o","m","p","o","n","e","n","t","s">>,
                      <<"a","s","s","e","m","b","l","y">> >> ],
    [ keyword |-> <<"s","e","m","i","c","o","n","d","u","c","t","o","r">>,
      categories |-> << <<"e","l","e","c","t","r","o","n","i","c","s">>,
                      <<"c","h","i","p","s">> >> ],
    [ keyword |-> <<"e","n","e","r","g","y">>,
      categories |-> << <<"p","e","t","r","o","c","h","e","m","i","c","a","l","s">>,
                      <<"r","a","w"," ","m","a","t","e","r","i","a","l","s">> >> ],
    [ keyword |-> <<"c","y","c","l","o","n","e">>,
      categories |-> << <<"p","o","r","t"," ","s","e","r","v","i","c","e","s">>,
                      <<"l","o","g","i","s","t","i","c","s">>,
                      <<"s","h","i","p","p","i","n","g">> >> ],
    [ keyword |-> <<"f","l","o","o","d">>,
      categories |-> << <<"m","a","n","u","f","a","c","t","u","r","i","n","g">>,
                      <<"l","o","g","i","s","t","i","c","s">> >> ],
    [ keyword |-> <<"e","a","r","t","h","q","u","a","k","e">>,
      categories |-> << <<"m","a","n","u","f","a","c","t","u","r","i","n","g">>,
                      <<"c","o","m","p","o","n","e","n","t","s">> >> ]
>>

\* keyword in keyword_category_map / keyword_category_map[keyword]
IsMappedKeyword(kw) == \E i \in DOMAIN KeywordCategoryMap : KeywordCategoryMap[i].keyword = kw
MappedCategories(kw) ==
    KeywordCategoryMap[CHOOSE i \in DOMAIN KeywordCategoryMap :
                           KeywordCategoryMap[i].keyword = kw].categories

InSeq(x, seq) == \E i \in DOMAIN seq : seq[i] = x

LowerAll(texts) == [i \in DOMAIN texts |-> Lower(texts[i])]

CheckCategoryMatch_NoSynonyms(s, event_keywords) ==
    IF event_keywords = <<>> \/ s.categories = <<>> THEN FALSE
    ELSE LET event_keywords_lower == LowerAll(event_keywords)
         IN  \E c \in DOMAIN s.categories :
                 LET category_lower == Lower(s.categories[c])
                 IN  \/ InSeq(category_lower, event_keywords_lower)
                     \/ \E k \in DOMAIN event_keywords_lower :
                          \/ Contains(event_keywords_lower[k], category_lower)
                          \/ Contains(category_lower, event_keywords_lower[k])

\* SupplierImpactAnalyzer._check_category_match
CheckCategoryMatch(s, event_keywords) ==
    IF event_keywords = <<>> \/ s.categories = <<>> THEN FALSE
    ELSE LET event_keywords_lower == LowerAll(event_keywords)
             direct ==
                 \E c \in DOMAIN s.categories :
                     LET category_lower == Lower(s.categories[c])
                     IN  \/ InSeq(category_lower, event_keywords_lower)
                         \/ \E k \in DOMAIN event_keywords_lower :
                              \/ Contains(event_keywords_lower[k], category_lower)
                              \/ Contains(category_lower, event_keywords_lower[k])
             mapped ==
                 \E k \in DOMAIN event_keywords_lower :
                     /\ IsMappedKeyword(event_keywords_lower[k])
                     /\ \E m \in DOMAIN MappedCategories(event_keywords_lower[k]) :
                          InSeq(MappedCategories(event_keywords_lower[k])[m],
                                LowerAll(s.categories))
         IN  direct \/ mapped

\* one iteration of the loop of find_affected_suppliers
IsAffected(s, e) ==
    LET location == Get(e, "location", <<>>)
        country == Get(location, "country", NoText)
        region == Get(location, "region", NoText)
        city == Get(location, "city", NoText)
        keywords == Get(e, "keywords", <<>>)
        geo_match == CheckGeographicMatch(s, country, region, city)
        category_match == CheckCategoryMatch(s, keywords)
    IN  geo_match \/ category_match

\* SupplierImpactAnalyzer.find_affected_suppliers, over suppliers[1..n]
RECURSIVE FindAffectedUpTo(_, _, _)
FindAffectedUpTo(suppliers, n, e) ==
    IF n = 0 THEN <<>>
    ELSE IF IsAffected(Supplier(suppliers[n]), e)
    THEN Append(FindAffectedUpTo(suppliers, n - 1, e), suppliers[n])
    ELSE FindAffectedUpTo(suppliers, n - 1, e)

FindAffectedSuppliers(suppliers, e) == FindAffectedUpTo(suppliers, Len(suppliers), e)


(***************************************************************************)
(* find_affected_suppliers on one event                                    *)
(***************************************************************************)
CountryInputs == { <<"C","h","i","n","a">>,
                   <<"C","H","I","N","A">>,
                   <<"i","n","d","i","a">>,
                   <<"M","a","r","s">> }
RegionInputs == { <<"T","E","X","A","S">> }
CityInputs == { <<"m","u","m","b","a","i">>,
                <<"S","i","n","g","a","p","o","r","e">> }
KeywordInputs == { <<"e","a","r","t","h","q","u","a","k","e">>,
                   <<"P","o","r","t">>,
                   <<"c","o","m","p","o","n","e","n","t">>,
                   <<"c","h","i","p","s"," ","s","h","o","r","t","a","g","e">>,
                   << >>,
                   <<"s","t","r","i","k","e">> }

\* longest keyword list drawn
MaxKeywords == 2

LocationInputs ==
    { c @@ r @@ t :
        c \in Optional("country", CountryInputs),
        r \in Optional("region", RegionInputs),
        t \in Optional("city", CityInputs) }

KeywordLists == UNION { [1..n -> KeywordInputs] : n \in 0..MaxKeywords }

ImpactEvents ==
    { l @@ k :
        l \in Optional("location", LocationInputs),
        k \in Optional("keywords", KeywordLists) }

RECURSIVE Reverse(_)
Reverse(seq) == IF seq = <<>> THEN <<>> ELSE Append(Reverse(Tail(seq)), Head(seq))

AllSuppliers == [i \in DOMAIN SUPPLIER_OBJECTS |-> i]

\* the default analyzer, and analyzers on every supplier in both orders
ImpactAnalyzers ==
    { NewImpactAnalyzer(<<>>), NewImpactAnalyzer(AllSuppliers),
      NewImpactAnalyzer(Reverse(AllSuppliers)) }

InitImpact ==
    /\ pc = "start"
    /\ analyzer \in ImpactAnalyzers
    /\ event \in ImpactEvents
    /\ found = None
    /\ affected = None /\ geo = None /\ result = None
    /\ risk = None
    /\ NoLevel /\ NoAlerting /\ NoClassifying
    /\ NoExt

DoFindAffectedSuppliers ==
    /\ pc = "start"
    /\ found' = FindAffectedSuppliers(analyzer, event)
    /\ pc' = "found"
    /\ UNCHANGED <<analyzer, risk, scoringVars, levelVars, alertVars, classifyVars>>
    /\ UNCHANGED extVars

NextImpact == DoFindAffectedSuppliers

SpecImpact == InitImpact /\ [][NextImpact]_vars

(***************************************************************************)
(* Properties of SupplierImpactAnalyzer.find_affected_suppliers            *)
(***************************************************************************)
C8_Location == Get(event, "location", <<>>)
C8_Keywords == Get(event, "keywords", <<>>)

\* case-insensitive equality of the supplier's city, region or country
\* with the event's (both given)
C8_GeoMatch(s) ==
    \E f \in {"city", "region", "country"} :
        /\ f \in DOMAIN C8_Location
        /\ C8_Location[f] # NoText
        /\ s[f] # NoText
        /\ Lower(s[f]) = Lower(C8_Location[f])

\* a keyword and a category contain one another, or a keyword is a key of
\* the synonym table and one of its categories is a category of s
C8_CategoryMatch(s) ==
    \/ \E k \in DOMAIN C8_Keywords, c \in DOMAIN s.categories :
         \/ Contains(Lower(s.categories[c]), Lower(C8_Keywords[k]))
         \/ Contains(Lower(C8_Keywords[k]), Lower(s.categories[c]))
    \/ \E k \in DOMAIN C8_Keywords, t \in DOMAIN KeywordCategoryMap :
         /\ KeywordCategoryMap[t].keyword = Lower(C8_Keywords[k])
         /\ \E m \in DOMAIN KeywordCategoryMap[t].categories,
               c \in DOMAIN s.categories :
                KeywordCategoryMap[t].categories[m] = Lower(s.categories[c])

\* positions of the catalog whose supplier matches
C8_Matching ==
    { i \in DOMAIN analyzer :
        C8_GeoMatch(Supplier(analyzer[i])) \/ C8_CategoryMatch(Supplier(analyzer[i])) }

C8_Earthquake == <<"e","a","r","t","h","q","u","a","k","e">>
C8_Manufacturing == <<"m","a","n","u","f","a","c","t","u","r","i","n","g">>
C8_Components == <<"c","o","m","p","o","n","e","n","t","s">>

\* C8: find_affected_suppliers returns exactly the catalog subsequence of
\* the suppliers with a geographic match or a category match, either alone
\* sufficing; keywords = ["earthquake"] matches every supplier whose
\* categories include "manufacturing" or "components".
C8_AffectedSuppliers ==
    pc = "found" =>
        /\ LET order == SortedSeq(C8_Matching)
           IN  found = [ k \in DOMAIN order |-> analyzer[order[k]] ]
        /\ C8_Keywords = <<C8_Earthquake>> =>
             \A i \in DOMAIN analyzer :
                 (\E c \in DOMAIN Supplier(analyzer[i]).categories :
                      Lower(Supplier(analyzer[i]).categories[c])
                          \in {C8_Manufacturing, C8_Components})
                 => InSeq(analyzer[i], found)

\* keywords = ["earthquake"] and no location: Bangkok Manufacturing
\* (manufacturing, assembly, textiles) is found through the synonym table,
\* Rotterdam Logistics BV is not found
C8_Witness ==
    /\ pc = "found"
    /\ C8_Keywords = <<C8_Earthquake>>
    /\ C8_Location = <<>>
    /\ InSeq(7, found)
    /\ ~InSeq(2, found)
    /\ InSeq(12, analyzer) /\ InSeq(12, found)


(***************************************************************************)
(* create_risk_matrix on assessments whose risks share a level but differ  *)
(* in priority                                                             *)
(***************************************************************************)
\* HIGH and LOW risks, each IMMEDIATE or LONG_TERM, with no supplier or
\* with the critical supplier 2: priorities 2, 3, 5, 6 and 8, 9, 11, 12
MatrixRisks ==
    { NewRisk(0, 500000, l, "supply", a, u, 0, 0, One) :
        l \in {"high", "low"}, u \in {"immediate", "long_term"},
        a \in {<<>>, <<2>>} }

MatrixAssessments ==
    { WithIds(s) : s \in UNION { [1..n -> MatrixRisks] : n \in 0..MaxRisks } }

InitMatrix ==
    /\ assessment \in MatrixAssessments
    /\ ClassifierReady

NextMatrix == DoCreateRiskMatrix

SpecMatrix == InitMatrix /\ [][NextMatrix]_vars

(***************************************************************************)
(* Properties of RiskClassifier.create_risk_matrix                         *)
(***************************************************************************)
C11_Levels == {"critical", "high", "medium", "low"}

\* C11: create_risk_matrix returns four lists keyed critical/high/medium/
\* low; each risk of the assessment appears exactly once, in the list of
\* its own level, with the classifier's priority number; the lists hold
\* nothing else; and each list is sorted ascending by priority.
C11_MatrixBuckets ==
    matrix # NoMatrix =>
        /\ DOMAIN matrix = C11_Levels
        /\ \A i \in DOMAIN assessment : \A lvl \in C11_Levels :
             Cardinality({ k \in DOMAIN matrix[lvl] :
                             matrix[lvl][k].risk_id = assessment[i].risk_id })
               = IF lvl = assessment[i].risk_level THEN 1 ELSE 0
        /\ \A lvl \in C11_Levels : \A k \in DOMAIN matrix[lvl] :
             /\ matrix[lvl][k].risk_id \in DOMAIN assessment
             /\ matrix[lvl][k].priority
                  = C9_Expected(assessment[matrix[lvl][k].risk_id])
             /\ k < Len(matrix[lvl])
                  => matrix[lvl][k].priority <= matrix[lvl][k + 1].priority

\* two HIGH risks given in descending order of urgency: the second risk of
\* the assessment comes first in the HIGH list
C11_Witness ==
    /\ matrix # NoMatrix
    /\ Len(assessment) >= 2
    /\ Len(matrix["high"]) >= 2
    /\ matrix["high"][1].risk_id = 2
    /\ matrix["high"][2].risk_id = 1
    /\ matrix["high"][1].priority < matrix["high"][2].priority


(***************************************************************************)
(* AlertGenerator.generate_alerts                                          *)
(***************************************************************************)
\* a.priority.value as a sort key: the order of the strings "P1" < "P2" <
\* "P3" < "P4"
PriorityValueRank(priority) ==
    CASE priority = "P1" -> 1
      [] priority = "P2" -> 2
      [] priority = "P3" -> 3
      [] priority = "P4" -> 4

\* the loop: the alert of each risk, in order, when it is not None
RECURSIVE CollectAlerts(_, _, _)
CollectAlerts(g, risks, n) ==
    IF n = 0 THEN <<>>
    ELSE LET rest == CollectAlerts(g, risks, n - 1)
             a == GenerateAlert(g, risks[n])
         IN  IF IsAlert(a) THEN Append(rest, a) ELSE rest

\* alerts.sort(key=lambda a: a.priority.value): a stable sort, by insertion
RECURSIVE InsertByPriorityValue(_, _)
InsertByPriorityValue(sorted, a) ==
    IF sorted = <<>> THEN <<a>>
    ELSE IF PriorityValueRank(sorted[Len(sorted)].priority)
              <= PriorityValueRank(a.priority)
    THEN Append(sorted, a)
    ELSE Append(InsertByPriorityValue(SubSeq(sorted, 1, Len(sorted) - 1), a),
                sorted[Len(sorted)])

RECURSIVE SortByPriorityValue(_)
SortByPriorityValue(as) ==
    IF as = <<>> THEN <<>>
    ELSE InsertByPriorityValue(SortByPriorityValue(SubSeq(as, 1, Len(as) - 1)),
                               as[Len(as)])

GenerateAlerts_Unsorted(g, risks) == CollectAlerts(g, risks, Len(risks))

\* AlertGenerator.generate_alerts
GenerateAlerts(g, risks) == SortByPriorityValue(CollectAlerts(g, risks, Len(risks)))

\* risks in a list passed to generate_alerts
MaxBatch == 3

\* risks of each level below every threshold, without suppliers or with
\* the critical supplier 2: priorities P1, P1 (escalated), P2, P3, P4
BatchRisks ==
    { NewRisk(0, 100000, l, "supply", a, "short_term", 0, 0, One) :
        l \in RiskLevels, a \in {<<>>, <<2>>} }

Batches ==
    { WithIds(s) : s \in UNION { [1..n -> BatchRisks] : n \in 0..MaxBatch } }

InitAlerts ==
    /\ pc = "start"
    /\ gen = DefaultAlertGenerator
    /\ assessment \in Batches
    /\ alerts = None
    /\ alert = None /\ risk = None
    /\ classifier = None /\ history = None /\ matrix = None
    /\ NoLevel /\ NoScoring /\ NoImpact /\ NoGeo /\ NoSensing
    /\ NoTime /\ NoBoundary /\ NoAck /\ NoLate

DoGenerateAlerts ==
    /\ pc = "start"
    /\ alerts' = GenerateAlerts(gen, assessment)
    /\ pc' = "alerts"
    /\ UNCHANGED <<coreVars, geoVars, sensingVars, timeVars, boundaryVars, ackVars, lateVars>>

NextAlerts == DoGenerateAlerts

SpecAlerts == InitAlerts /\ [][NextAlerts]_vars

(***************************************************************************)
(* Properties of AlertGenerator.generate_alerts                            *)
(***************************************************************************)
\* C12: generate_alerts returns exactly one alert per risk for which
\* generate_alert is not None, that alert, and nothing else; the list is
\* ordered by priority ascending (every P1 before every P2, every P2
\* before every P3, every P3 before every P4).
C12_AlertsSorted ==
    pc = "alerts" =>
        /\ \A i \in DOMAIN assessment :
             LET a == GenerateAlert(gen, assessment[i])
             IN  Cardinality({ k \in DOMAIN alerts : alerts[k].risk.risk_id = i })
                   = IF IsAlert(a) THEN 1 ELSE 0
        /\ \A k \in DOMAIN alerts :
             /\ alerts[k].risk.risk_id \in DOMAIN assessment
             /\ alerts[k] = GenerateAlert(gen, assessment[alerts[k].risk.risk_id])
        /\ \A j \in DOMAIN alerts : \A k \in DOMAIN alerts :
             j < k => PriorityValueRank(alerts[j].priority)
                        <= PriorityValueRank(alerts[k].priority)

\* risks given as P4, P2, P1: the alerts come back as P1, P2, P4
C12_Witness ==
    /\ pc = "alerts"
    /\ Len(assessment) = 3
    /\ Len(alerts) = 3
    /\ alerts[1].risk.risk_id = 3 /\ alerts[1].priority = "P1"
    /\ alerts[2].risk.risk_id = 2 /\ alerts[2].priority = "P2"
    /\ alerts[3].risk.risk_id = 1 /\ alerts[3].priority = "P4"


(***************************************************************************)
(* GeographicCorrelator                                                    *)
(***************************************************************************)
\* GeographicCorrelator.__init__: suppliers or get_simulated_suppliers()
NewGeographicCorrelator(suppliers) ==
    IF suppliers = <<>> THEN [i \in DOMAIN SIMULATED_SUPPLIERS |-> i]
    ELSE suppliers

\* _country_distribution.get(country, {}): the catalog positions whose
\* supplier.country is exactly the event's country
InCountry(suppliers, country) ==
    { i \in DOMAIN suppliers : Supplier(suppliers[i]).country = country }

RECURSIVE SumSpend(_, _)
SumSpend(suppliers, positions) ==
    IF positions = {} THEN 0
    ELSE LET i == CHOOSE x \in positions : TRUE
         IN  Supplier(suppliers[i]).annual_spend
               + SumSpend(suppliers, positions \ {i})

RECURSIVE GCD(_, _)
GCD(a, b) == IF b = 0 THEN a ELSE GCD(b, a % b)

\* a / b as a fraction in lowest terms (b > 0)
Ratio(a, b) == LET g == GCD(a, b) IN [num |-> a \div g, den |-> b \div g]

\* round(a / b): the nearest integer; both neighbours at an exact tie,
\* where the binary value of the quotient decides
RoundDiv(a, b) ==
    LET q == a \div b
        r == a % b
    IN  IF 2 * r < b THEN {q}
        ELSE IF 2 * r > b THEN {q + 1}
        ELSE {q, q + 1}

\* severity_multipliers.get(severity, 1.0), in percent
SeverityMultiplier(severity) ==
    CASE severity = "critical" -> 130
      [] severity = "high"     -> 115
      [] severity = "medium"   -> 100
      [] severity = "low"      -> 80
      [] OTHER                 -> 100

ConcentrationWeight == 4
SpendConcentrationWeight == 6
DefaultGeoRiskFactor == 300000

GeoRiskFactor_NoClamp(c, sc, multiplier) ==
    LET a == (ConcentrationWeight * c.num * sc.den
                + SpendConcentrationWeight * sc.num * c.den) * multiplier
        b == c.den * sc.den
    IN  { 1000 * k : k \in RoundDiv(a, b) }

\* the values round(min(1.0, (concentration * 0.4 + spend_concentration *
\* 0.6) * multiplier), 3) can take, in millionths
GeoRiskFactor(c, sc, multiplier) ==
    LET a == (ConcentrationWeight * c.num * sc.den
                + SpendConcentrationWeight * sc.num * c.den) * multiplier
        b == c.den * sc.den
    IN  IF a >= 1000 * b THEN {One}
        ELSE { 1000 * k : k \in RoundDiv(a, b) }

\* concentration >= 0.3 / >= 0.15
ConcentrationLevel(c) ==
    IF 10 * c.num >= 3 * c.den THEN "high"
    ELSE IF 100 * c.num >= 15 * c.den THEN "medium"
    ELSE "low"

UnknownRegion == <<"U","n","k","n","o","w","n">>
RegionSeparator == <<",", " ">>

RECURSIVE JoinParts(_)
JoinParts(parts) ==
    IF Len(parts) = 1 THEN parts[1]
    ELSE parts[1] \o RegionSeparator \o JoinParts(Tail(parts))

\* GeographicCorrelator._format_region
FormatRegion(country, region, city) ==
    LET parts == SelectSeq(<<city, region, country>>, LAMBDA p : p # NoText)
    IN  IF parts = <<>> THEN UnknownRegion ELSE JoinParts(parts)

NoCountryGeoRisk_ZeroFactor ==
    [ risk_factor |-> 0,
      affected_region |-> UnknownRegion,
      concentration_risk |-> "unknown",
      suppliers_in_region |-> 0,
      spend_at_risk |-> 0 ]

\* the dict returned when the event has no country
NoCountryGeoRisk ==
    [ risk_factor |-> DefaultGeoRiskFactor,
      affected_region |-> UnknownRegion,
      concentration_risk |-> "unknown",
      suppliers_in_region |-> 0,
      spend_at_risk |-> 0 ]

\* GeographicCorrelator.calculate_geographic_risk: the results it can
\* return (percentages in tenths of a percent)
CalculateGeographicRisk(suppliers, e) ==
    LET location == Get(e, "location", <<>>)
        country == Get(location, "country", NoText)
        region == Get(location, "region", NoText)
        city == Get(location, "city", NoText)
    IN  IF country = NoText
        THEN { NoCountryGeoRisk }
        ELSE
          LET in_country == InCountry(suppliers, country)
              suppliers_in_country == Cardinality(in_country)
              spend_in_country == SumSpend(suppliers, in_country)
              total_suppliers == Len(suppliers)
              total_spend == SumSpend(suppliers, DOMAIN suppliers)
              concentration ==
                  IF total_suppliers = 0 THEN [num |-> 0, den |-> 1]
                  ELSE Ratio(suppliers_in_country, total_suppliers)
              spend_concentration ==
                  IF total_spend = 0 THEN [num |-> 0, den |-> 1]
                  ELSE Ratio(spend_in_country, total_spend)
              multiplier == SeverityMultiplier(Get(e, "severity", "medium"))
          IN  { [ risk_factor |-> rf,
                  affected_region |-> FormatRegion(country, region, city),
                  affected_country |-> country,
                  concentration_risk |-> ConcentrationLevel(concentration),
                  suppliers_in_region |-> suppliers_in_country,
                  spend_at_risk |-> spend_in_country,
                  supplier_concentration |-> cp,
                  spend_concentration |-> sp ] :
                rf \in GeoRiskFactor(concentration, spend_concentration, multiplier),
                cp \in RoundDiv(1000 * concentration.num, concentration.den),
                sp \in RoundDiv(1000 * spend_concentration.num,
                                spend_concentration.den) }

(***************************************************************************)
(* calculate_geographic_risk on one event                                  *)
(***************************************************************************)
\* suppliers in a catalog passed to GeographicCorrelator
MaxCatalog == 2

GeoCountryInputs == { <<"C","h","i","n","a">>,
                      <<"c","h","i","n","a">>,
                      <<"I","n","d","i","a">>,
                      <<"T","a","i","w","a","n">>,
                      <<"M","a","r","s">>,
                      NoText }
GeoRegionInputs == { <<"K","a","n","s","a","i">> }
GeoCityInputs == { <<"T","a","i","p","e","i">> }

GeoLocationInputs ==
    { c @@ r @@ t :
        c \in Optional("country", GeoCountryInputs),
        r \in Optional("region", GeoRegionInputs),
        t \in Optional("city", GeoCityInputs) }

GeoEvents ==
    { l @@ s :
        l \in Optional("location", GeoLocationInputs),
        s \in Optional("severity", SeverityInputs) }

\* the default catalog, and every catalog of up to MaxCatalog suppliers
GeoCatalogs ==
    { SortedSeq(S) : S \in { T \in SUBSET DOMAIN SUPPLIER_OBJECTS :
                                Cardinality(T) <= MaxCatalog } }

InitGeo ==
    /\ pc = "start"
    /\ correlator \in { NewGeographicCorrelator(c) : c \in GeoCatalogs }
    /\ event \in GeoEvents
    /\ georisk = None
    /\ affected = None /\ geo = None /\ result = None
    /\ risk = None
    /\ NoLevel /\ NoAlerting /\ NoClassifying /\ NoImpact /\ NoBatch
    /\ NoSensing /\ NoTime /\ NoBoundary /\ NoAck /\ NoLate

DoCalculateGeographicRisk ==
    /\ pc = "start"
    /\ georisk' \in CalculateGeographicRisk(correlator, event)
    /\ pc' = "geo"
    /\ UNCHANGED <<correlator, coreVars, batchVars, sensingVars>>
    /\ UNCHANGED <<timeVars, boundaryVars, ackVars, lateVars>>

NextGeo == DoCalculateGeographicRisk

SpecGeo == InitGeo /\ [][NextGeo]_vars


(***************************************************************************)
(* Properties of GeographicCorrelator.calculate_geographic_risk            *)
(***************************************************************************)
\* the event's country, NoText when the location or the country is
\* missing or empty
C13_Country == Get(Get(event, "location", <<>>), "country", NoText)

\* C13: for every event without a country (missing location, missing or
\* empty country) the result has risk_factor exactly 0.3 and
\* affected_region "Unknown", whatever the severity and the catalog.
C13_NoCountryDefault ==
    (pc = "geo" /\ C13_Country = NoText) =>
        /\ georisk.risk_factor = 300000
        /\ georisk.affected_region = <<"U","n","k","n","o","w","n">>

\* a critical event with a region and a city but an empty country, on a
\* catalog of one supplier
C13_Witness ==
    /\ pc = "geo"
    /\ "location" \in DOMAIN event
    /\ "country" \in DOMAIN event.location /\ event.location.country = NoText
    /\ "city" \in DOMAIN event.location
    /\ "severity" \in DOMAIN event /\ event.severity = "critical"
    /\ Len(correlator) = 1
    /\ georisk.risk_factor = 300000

\* suppliers_in_country / total_suppliers and spend_in_country /
\* total_spend for the event's country, in lowest terms (0 when the
\* denominator is 0)
C14_InCountry ==
    { i \in DOMAIN correlator : Supplier(correlator[i]).country = C13_Country }

C14_Concentration ==
    IF Len(correlator) = 0 THEN [num |-> 0, den |-> 1]
    ELSE Ratio(Cardinality(C14_InCountry), Len(correlator))

C14_SpendConcentration ==
    IF SumSpend(correlator, DOMAIN correlator) = 0 THEN [num |-> 0, den |-> 1]
    ELSE Ratio(SumSpend(correlator, C14_InCountry),
               SumSpend(correlator, DOMAIN correlator))

C14_Multiplier ==
    IF "severity" \notin DOMAIN event THEN 100
    ELSE CASE event.severity = "critical" -> 130
           [] event.severity = "high"     -> 115
           [] event.severity = "medium"   -> 100
           [] event.severity = "low"      -> 80
           [] OTHER                       -> 100

\* 1000 * (0.4 * concentration + 0.6 * spend_concentration) * m as the
\* fraction C14_Scaled / C14_Denominator
C14_Scaled ==
    (4 * C14_Concentration.num * C14_SpendConcentration.den
       + 6 * C14_SpendConcentration.num * C14_Concentration.den) * C14_Multiplier

C14_Denominator == C14_Concentration.den * C14_SpendConcentration.den

\* min(1, (0.4 * concentration + 0.6 * spend_concentration) * m) in
\* thousandths, as the whole part C14_Whole and the fraction
\* C14_Rest / C14_Denominator
C14_Whole ==
    IF C14_Scaled >= 1000 * C14_Denominator THEN 1000
    ELSE C14_Scaled \div C14_Denominator

C14_Rest ==
    IF C14_Scaled >= 1000 * C14_Denominator THEN 0
    ELSE C14_Scaled % C14_Denominator

\* C14 (as stated): for every event with a country, risk_factor equals
\* min(1, (0.4 * concentration + 0.6 * spend_concentration) * m) and lies
\* in [0,1].
C14_Original ==
    (pc = "geo" /\ C13_Country # NoText) =>
        /\ 0 <= georisk.risk_factor /\ georisk.risk_factor <= One
        /\ (1000 * C14_Rest) % C14_Denominator = 0
        /\ georisk.risk_factor
             = 1000 * C14_Whole + (1000 * C14_Rest) \div C14_Denominator

\* C14 (amended): for every event with a country, risk_factor equals
\* min(1, (0.4 * concentration + 0.6 * spend_concentration) * m) rounded
\* to three decimals: it is the multiple of 0.001 nearest to that value
\* (equal to it when the value is itself a multiple of 0.001), it lies in
\* [0,1], and it is exactly 1 when the multiplied sum reaches or exceeds 1.
C14_GeoRiskFactorRounded ==
    (pc = "geo" /\ C13_Country # NoText) =>
        /\ 0 <= georisk.risk_factor /\ georisk.risk_factor <= One
        /\ georisk.risk_factor
             \in { 1000 * k : k \in
                     IF 2 * C14_Rest < C14_Denominator THEN {C14_Whole}
                     ELSE IF 2 * C14_Rest > C14_Denominator THEN {C14_Whole + 1}
                     ELSE {C14_Whole, C14_Whole + 1} }

\* a critical event in China on the simulated catalog: one supplier of
\* ten and 5/44 of the spend, so that the multiplied sum is
\* (0.4 * 1/10 + 0.6 * 5/44) * 1.3 = 0.14063..., and the risk factor is
\* 0.141
C14_Witness ==
    /\ pc = "geo"
    /\ C13_Country = <<"C","h","i","n","a">>
    /\ Len(correlator) = 10
    /\ C14_Multiplier = 130
    /\ C14_Concentration = [num |-> 1, den |-> 10]
    /\ C14_SpendConcentration = [num |-> 5, den |-> 44]
    /\ C14_Rest # 0
    /\ georisk.risk_factor = 141000

\* C15: every result of calculate_geographic_risk, on every path, holds
\* the seven contract fields.
C15_SevenFields ==
    pc = "geo" =>
        {"risk_factor", "affected_region", "concentration_risk",
         "suppliers_in_region", "spend_at_risk", "supplier_concentration",
         "spend_concentration"} \subseteq DOMAIN georisk


(***************************************************************************)
(* Properties of RiskScorer._estimate_delay_days                           *)
(***************************************************************************)
C16_Base ==
    IF "severity" \notin DOMAIN event THEN 3
    ELSE CASE event.severity = "critical" -> 14
           [] event.severity = "high"     -> 7
           [] event.severity = "medium"   -> 3
           [] event.severity = "low"      -> 1
           [] OTHER                       -> 3

\* C16: estimated_delay_days is base * (1 + composite_score) rounded to
\* the nearest integer (either neighbour at an exact half), with base
\* 14/7/3/1 for critical/high/medium/low and 3 when severity is missing.
C16_DelayRounded ==
    Scored =>
        LET exact == FMul(FloatOfInt(C16_Base),
                          FAdd(FloatOne, CompositeScore(event, affected, geo)))
            days == result.estimated_delay_days
        IN  /\ FGe(FloatHalf, FAdd(FloatOfInt(days), FNeg(exact)))
            /\ FGe(FloatHalf, FAdd(exact, FNeg(FloatOfInt(days))))


(***************************************************************************)
(* Event and EventNormalizer                                               *)
(***************************************************************************)
EventCategories ==
    {"logistics", "natural_disaster", "geopolitical", "economic", "labor",
     "infrastructure", "other"}

EventSeverities == {"low", "medium", "high", "critical"}

\* Event.__init__: confidence is clamped (title, description, location,
\* keywords and the timestamps are not modelled)
NewEvent(category, severity, confidence) ==
    [ category |-> category,
      severity |-> severity,
      confidence |-> Clamp01(confidence) ]

DefaultConfidenceThreshold == 500000

\* EventNormalizer.__init__
NewEventNormalizer(confidence_threshold) ==
    [ confidence_threshold |-> confidence_threshold ]

\* self._category_weights
CategoryWeights ==
    [ logistics |-> Float(One), natural_disaster |-> Float(900000),
      infrastructure |-> Float(850000), labor |-> Float(750000),
      geopolitical |-> Float(700000), economic |-> Float(600000),
      other |-> Float(400000) ]

\* self._category_weights.get(category, 0.5)
CategoryWeight(category) == Get(CategoryWeights, category, FloatHalf)

\* self._severity_multipliers
SeverityMultipliers ==
    [ critical |-> Float(One), high |-> Float(750000),
      medium |-> Float(500000), low |-> Float(250000) ]

\* self._severity_multipliers.get(severity, 0.5)
SeverityMult(severity) == Get(SeverityMultipliers, severity, FloatHalf)

\* EventNormalizer._calculate_impact_score: min(1.0, category_weight *
\* severity_mult * event.confidence), a float
CalculateImpactScore(e) ==
    FMin(FloatOne, FMul(FMul(CategoryWeight(e.category), SeverityMult(e.severity)),
                        Float(e.confidence)))

\* severity_base.get(event.severity, 25)
SeverityRankBase(severity) ==
    CASE severity = "critical" -> 1
      [] severity = "high"     -> 10
      [] severity = "medium"   -> 20
      [] severity = "low"      -> 30
      [] OTHER                 -> 25

ImpactRankSteps == 5

\* EventNormalizer._calculate_priority: max(1, base - int(impact_score * 5))
CalculateEventPriority(e, impact_score) ==
    Max(1, SeverityRankBase(e.severity)
             - PyInt(FMul(impact_score, FloatOfInt(ImpactRankSteps))))

\* EventNormalizer._normalize_event: the dict returned for the local
\* impact_score (the text, location and timestamp fields are not modelled)
NormalizedEvent(e, impact_score) ==
    [ category |-> e.category,
      severity |-> e.severity,
      confidence |-> Rounded3(Float(e.confidence)),
      impact_score |-> Rounded3(impact_score),
      priority_rank |-> CalculateEventPriority(e, impact_score),
      requires_analysis |-> FGe(impact_score, FloatHalf),
      requires_immediate_action |-> e.severity = "critical" ]

NormalizeEvent(e) == NormalizedEvent(e, CalculateImpactScore(e))

\* EventNormalizer.normalize: the list returned for events[1..n]
RECURSIVE NormalizeUpTo(_, _, _)
NormalizeUpTo(nz, events, n) ==
    IF n = 0 THEN <<>>
    ELSE IF events[n].confidence < nz.confidence_threshold
    THEN NormalizeUpTo(nz, events, n - 1)
    ELSE Append(NormalizeUpTo(nz, events, n - 1), NormalizeEvent(events[n]))

Normalize(nz, events) == NormalizeUpTo(nz, events, Len(events))

(***************************************************************************)
(* Construction of a Risk and of an Event, and normalization of the Event  *)
(***************************************************************************)
\* score and confidence arguments: below 0, the bounds, inside, above 1
RawScoreInputs == {-500000, 0, 300000, 500000, 770000, One, 1500000}

ConstructorArgs ==
    [ risk_score : RawScoreInputs, confidence : RawScoreInputs,
      category : EventCategories, severity : EventSeverities ]

InitSensing ==
    /\ pc = "start"
    /\ args \in ConstructorArgs
    /\ normalizer \in { NewEventNormalizer(DefaultConfidenceThreshold),
                         NewEventNormalizer(0) }
    /\ sensed = None
    /\ normalized = None
    /\ risk = None
    /\ NoLevel /\ NoScoring /\ NoAlerting /\ NoClassifying /\ NoImpact
    /\ NoBatch /\ NoGeo /\ NoTime /\ NoBoundary /\ NoAck /\ NoLate

\* Risk(...) with the score and confidence arguments
DoNewRisk ==
    /\ pc = "start"
    /\ risk' = NewRisk(1, args.risk_score, FromScore(Float(args.risk_score)), "supply",
                       <<>>, "medium_term", 0, 0, args.confidence)
    /\ pc' = "risk_built"
    /\ UNCHANGED <<levelVars, scoringVars, alertVars, classifyVars, impactVars>>
    /\ UNCHANGED extVars

\* Event(...) with the category, severity and confidence arguments
DoNewEvent ==
    /\ pc = "start"
    /\ sensed' = NewEvent(args.category, args.severity, args.confidence)
    /\ pc' = "event_built"
    /\ UNCHANGED <<args, normalizer, normalized, coreVars, batchVars, geoVars>>
    /\ UNCHANGED <<timeVars, boundaryVars, ackVars, lateVars>>

\* normalizer.normalize([event])
DoNormalize ==
    /\ pc = "event_built"
    /\ normalized' = Normalize(normalizer, <<sensed>>)
    /\ pc' = "normalized"
    /\ UNCHANGED <<args, sensed, normalizer, coreVars, batchVars, geoVars>>
    /\ UNCHANGED <<timeVars, boundaryVars, ackVars, lateVars>>

NextSensing == DoNewRisk \/ DoNewEvent \/ DoNormalize

SpecSensing == InitSensing /\ [][NextSensing]_vars

(***************************************************************************)
(* Clamping at construction                                                *)
(***************************************************************************)
C17_Clamp(x) == IF x < 0 THEN 0 ELSE IF x > One THEN One ELSE x

\* C17: whatever the arguments, below 0 and above 1 included, the
\* risk_score and confidence of a Risk, the confidence of an Event and the
\* impact_score of every normalized event lie in [0,1]; the stored scores
\* are the arguments clamped into [0,1].
C17_ScoresClamped ==
    /\ pc = "risk_built" =>
          /\ risk.risk_score = C17_Clamp(args.risk_score)
          /\ risk.confidence = C17_Clamp(args.confidence)
          /\ InUnit(risk.risk_score) /\ InUnit(risk.confidence)
    /\ pc \in {"event_built", "normalized"} =>
          /\ sensed.confidence = C17_Clamp(args.confidence)
          /\ InUnit(sensed.confidence)
    /\ pc = "normalized" =>
          /\ InUnitFloat(CalculateImpactScore(sensed))
          /\ \A k \in DOMAIN normalized :
                /\ InUnit(normalized[k].impact_score)
                /\ InUnit(normalized[k].confidence)

\* a critical logistics event built with confidence 1.5: the confidence is
\* stored as 1.0 and the normalized impact score is 1.0
C17_Witness ==
    /\ pc = "normalized"
    /\ args.confidence > One
    /\ sensed.confidence = One
    /\ Len(normalized) = 1
    /\ normalized[1].impact_score = One


(***************************************************************************)
(* BaseAgent.run_cycle                                                     *)
(***************************************************************************)
AgentName == "agent"

\* BaseAgent.__init__
NewAgent(enabled) ==
    [ enabled |-> enabled, last_run |-> None, events_detected |-> 0 ]

\* EventBatch(events, source_agent): `events or []`
NewEventBatch(events, source_agent) ==
    [ events |-> events, source_agent |-> source_agent ]

\* what a call gives its caller: a value, or an exception that propagates
Returned(value) == [ raised |-> FALSE, value |-> value ]
Raised(error) == [ raised |-> TRUE, error |-> error ]

RunCycle_NoCatch(a, sense, now) ==
    IF ~a.enabled
    THEN [ agent |-> a, returned |-> Returned(NewEventBatch(<<>>, AgentName)) ]
    ELSE IF sense.raises
    THEN [ agent |-> [a EXCEPT !.last_run = now],
           returned |-> Raised(sense.error) ]
    ELSE [ agent |-> [a EXCEPT !.last_run = now,
                               !.events_detected = @ + Len(sense.events)],
           returned |-> Returned(NewEventBatch(sense.events, AgentName)) ]

\* BaseAgent.run_cycle, when sense() behaves as `sense` and the time is
\* `now`: the agent afterwards and what the caller gets
RunCycle(a, sense, now) ==
    IF ~a.enabled
    THEN [ agent |-> a, returned |-> Returned(NewEventBatch(<<>>, AgentName)) ]
    ELSE IF sense.raises
    THEN [ agent |-> [a EXCEPT !.last_run = now],
           returned |-> Returned(NewEventBatch(<<>>, AgentName)) ]
    ELSE [ agent |-> [a EXCEPT !.last_run = now,
                               !.events_detected = @ + Len(sense.events)],
           returned |-> Returned(NewEventBatch(sense.events, AgentName)) ]

(***************************************************************************)
(* Pipeline                                                                *)
(***************************************************************************)
PipelineStages ==
    {"event_sensing", "risk_analysis", "recovery_planning", "contract_drafting"}

\* StageResult.__init__ (duration_ms and timestamp are not modelled)
NewStageResult(stage, success, data, error) ==
    [ stage |-> stage, success |-> success, data |-> data, error |-> error ]

\* Pipeline.__init__: no stage registered, no result recorded
NewPipeline == [ stages |-> <<>>, results |-> <<>> ]

\* d[key] = value
Put(d, key, value) == [ k \in DOMAIN d \cup {key} |-> IF k = key THEN value ELSE d[k] ]

\* Pipeline.register_stage
RegisterStage(p, stage, handler) ==
    [p EXCEPT !.stages = Put(p.stages, stage, handler)]

NoHandlerError(stage) == "No handler registered for " \o stage

\* Pipeline.execute_stage: the pipeline afterwards and what the caller gets
ExecuteStage(p, stage) ==
    IF stage \notin DOMAIN p.stages
    THEN [ pipeline |-> p,
           returned |-> Returned(NewStageResult(stage, FALSE, None,
                                                NoHandlerError(stage))) ]
    ELSE LET handler == p.stages[stage]
             stage_result == IF handler.raises
                       THEN NewStageResult(stage, FALSE, None, handler.error)
                       ELSE NewStageResult(stage, TRUE, handler.data, None)
         IN  [ pipeline |-> [p EXCEPT !.results = Put(p.results, stage, stage_result)],
               returned |-> Returned(stage_result) ]

(***************************************************************************)
(* Sensing cycles of one agent and stage executions of one pipeline, in    *)
(* any order                                                               *)
(***************************************************************************)
\* ticks of the clock: the number of sensing cycles run
MaxClock == 2
\* events one sense() call returns
MaxSensed == 1

\* sense() returns a list of events or raises an Exception
SenseOutcomes ==
    { [ raises |-> FALSE, events |-> [i \in 1..k |-> i] ] : k \in 0..MaxSensed }
    \cup { [ raises |-> TRUE, error |-> "source unavailable" ] }

\* a stage handler returns data or raises an Exception
HandlerInputs ==
    { [ raises |-> FALSE, data |-> "data" ],
      [ raises |-> TRUE, error |-> "handler failed" ] }

\* the stages registered and executed
StageInputs == {"event_sensing", "risk_analysis"}

NoCall == [ none |-> TRUE ]

InitBoundary ==
    /\ pc = "ready"
    /\ clock = 0
    /\ agent \in { NewAgent(en) : en \in BOOLEAN }
    /\ cycle = NoCall
    /\ pipeline = NewPipeline
    /\ stagecall = NoCall
    /\ risk = None
    /\ NoLevel /\ NoScoring /\ NoAlerting /\ NoClassifying /\ NoImpact
    /\ NoBatch /\ NoGeo /\ NoSensing /\ NoAck /\ NoLate

\* agent.run_cycle(), sense() behaving as `sense`
DoRunCycle(sense) ==
    /\ clock < MaxClock
    /\ LET r == RunCycle(agent, sense, clock + 1)
       IN  /\ agent' = r.agent
           /\ cycle' = [ enabled |-> agent.enabled,
                         sense |-> sense,
                         detected_before |-> agent.events_detected,
                         returned |-> r.returned ]
    /\ clock' = clock + 1
    /\ UNCHANGED <<pc, pipeline, stagecall, coreVars, batchVars, geoVars, sensingVars>>
    /\ UNCHANGED <<ackVars, lateVars>>

\* pipeline.register_stage(stage, handler)
DoRegisterStage(stage, handler) ==
    /\ pipeline' = RegisterStage(pipeline, stage, handler)
    /\ UNCHANGED <<pc, clock, agent, cycle, stagecall>>
    /\ UNCHANGED <<coreVars, batchVars, geoVars, sensingVars, ackVars, lateVars>>

\* pipeline.execute_stage(stage)
DoExecuteStage(stage) ==
    /\ LET r == ExecuteStage(pipeline, stage)
       IN  /\ pipeline' = r.pipeline
           /\ stagecall' = [ stage |-> stage,
                             registered |-> stage \in DOMAIN pipeline.stages,
                             handler |-> IF stage \in DOMAIN pipeline.stages
                                         THEN pipeline.stages[stage] ELSE NoCall,
                             returned |-> r.returned ]
    /\ UNCHANGED <<pc, clock, agent, cycle>>
    /\ UNCHANGED <<coreVars, batchVars, geoVars, sensingVars, ackVars, lateVars>>

NextBoundary ==
    \/ \E sense \in SenseOutcomes : DoRunCycle(sense)
    \/ \E stage \in StageInputs, handler \in HandlerInputs :
          DoRegisterStage(stage, handler)
    \/ \E stage \in StageInputs : DoExecuteStage(stage)

SpecBoundary == InitBoundary /\ [][NextBoundary]_vars

(***************************************************************************)
(* Exceptions stop at run_cycle and execute_stage                          *)
(***************************************************************************)
\* C18: run_cycle and execute_stage never raise to their caller; when
\* sense() raises, run_cycle returns an empty EventBatch and leaves the
\* agent's total_events_detected unchanged; when the stage handler raises,
\* execute_stage returns a StageResult with success = False and the error
\* text, and records it in the pipeline's results.
C18_ExceptionsContained ==
    /\ cycle # NoCall =>
          /\ ~cycle.returned.raised
          /\ (cycle.enabled /\ cycle.sense.raises) =>
                /\ cycle.returned.value.events = <<>>
                /\ agent.events_detected = cycle.detected_before
    /\ stagecall # NoCall =>
          /\ ~stagecall.returned.raised
          /\ (stagecall.registered /\ stagecall.handler.raises) =>
                /\ stagecall.returned.value.success = FALSE
                /\ stagecall.returned.value.error = stagecall.handler.error
                /\ stagecall.stage \in DOMAIN pipeline.results
                /\ pipeline.results[stagecall.stage] = stagecall.returned.value

\* an agent that detected an event in one cycle and whose sense() raised
\* in the next, and a pipeline whose risk_analysis handler raised
C18_Witness ==
    /\ cycle # NoCall /\ stagecall # NoCall
    /\ cycle.enabled /\ cycle.sense.raises
    /\ cycle.detected_before > 0
    /\ agent.events_detected = cycle.detected_before
    /\ stagecall.stage = "risk_analysis"
    /\ stagecall.registered /\ stagecall.handler.raises
    /\ pipeline.results["risk_analysis"].success = FALSE


(***************************************************************************)
(* calculate_risk_score on supplier lists whose total spend lies on, below *)
(* and above each exposure threshold                                       *)
(***************************************************************************)
\* supplier lists over every supplier object, the ones outside the
\* simulated database included
ExposureLists ==
    { SortedSeq(S) : S \in { T \in SUBSET DOMAIN SUPPLIER_OBJECTS :
                                Cardinality(T) <= MaxAffected } }

ExposureEvents ==
    { [ severity |-> "high", confidence |-> 800000 ],
      [ severity |-> "low", impact_score |-> 500000 ] }

InitExposure ==
    /\ pc = "start"
    /\ event \in ExposureEvents
    /\ affected \in ExposureLists
    /\ geo \in {DefaultGeoRiskFactor, 500000}
    /\ result = None
    /\ risk = None
    /\ NoLevel /\ NoAlerting /\ NewAssessmentOnly /\ NoImpact
    /\ NoExt

SpecExposure == InitExposure /\ [][Next]_vars

\* C19: the financial_exposure component is 1.0 when the total annual
\* spend T of the affected suppliers is at least 10,000,000, 0.7 when
\* 5,000,000 <= T < 10,000,000, 0.4 when 1,000,000 <= T < 5,000,000, 0.2
\* when T < 1,000,000 with at least one supplier, and 0 with no supplier.
C19_FinancialStep ==
    pc # "start" =>
        LET T == TotalSpend(affected)
            financial_exposure == result.component_scores.financial_exposure
        IN  /\ (affected = <<>>) => financial_exposure = 0
            /\ (affected # <<>> /\ T < 1000000) => financial_exposure = 200000
            /\ (1000000 <= T /\ T < 5000000) => financial_exposure = 400000
            /\ (5000000 <= T /\ T < 10000000) => financial_exposure = 700000
            /\ (T >= 10000000) => financial_exposure = One

\* a scored list of two suppliers whose spends add up to exactly 1,000,000
C19_Witness ==
    /\ pc = "scored"
    /\ Len(affected) = 2
    /\ TotalSpend(affected) = 1000000
    /\ result.component_scores.financial_exposure = 400000


(***************************************************************************)
(* The life of one alert: generate_alert, then acknowledge and to_dict in  *)
(* any order                                                               *)
(***************************************************************************)
Users == {"alice", "bob"}

AckScoreInputs == {0, 650000}

AckRisks ==
    { NewRisk(1, s, l, "supply", <<>>, "immediate", 0, 0, One) :
        s \in AckScoreInputs, l \in RiskLevels }

InitAck ==
    /\ pc = "start"
    /\ risk \in AckRisks
    /\ gen = DefaultAlertGenerator
    /\ alert = NoAlert
    /\ clock = 0
    /\ calls = <<>>
    /\ shown = NoCall
    /\ NoLevel /\ NoScoring /\ NoClassifying /\ NoImpact
    /\ NoBatch /\ NoGeo /\ NoSensing /\ NoBoundary /\ NoLate

\* alert.acknowledge(user)
DoAcknowledge(user) ==
    /\ pc = "alerted"
    /\ IsAlert(alert)
    /\ clock < MaxClock
    /\ clock' = clock + 1
    /\ alert' = Acknowledge(alert, user, clock + 1)
    /\ calls' = Append(calls, [ user |-> user, at |-> clock + 1 ])
    /\ UNCHANGED <<pc, risk, gen, shown>>
    /\ UNCHANGED <<levelVars, scoringVars, classifyVars, impactVars>>
    /\ UNCHANGED <<batchVars, geoVars, sensingVars, boundaryVars, lateVars>>

\* alert.to_dict()
DoToDict ==
    /\ pc = "alerted"
    /\ IsAlert(alert)
    /\ shown' = AlertToDict(alert)
    /\ UNCHANGED <<pc, risk, gen, alert, clock, calls>>
    /\ UNCHANGED <<levelVars, scoringVars, classifyVars, impactVars>>
    /\ UNCHANGED <<batchVars, geoVars, sensingVars, boundaryVars, lateVars>>

NextAck ==
    \/ DoGenerateAlert
    \/ \E user \in Users : DoAcknowledge(user)
    \/ DoToDict

SpecAck == InitAck /\ [][NextAck]_vars

\* the alert's acknowledgement fields say what the calls made so far say
C20_AckState ==
    (pc = "alerted" /\ IsAlert(alert)) =>
        IF calls = <<>>
        THEN /\ alert.acknowledged = FALSE
             /\ alert.acknowledged_by = None
             /\ alert.acknowledged_at = None
        ELSE /\ alert.acknowledged = TRUE
             /\ alert.acknowledged_by = calls[Len(calls)].user
             /\ alert.acknowledged_at = calls[Len(calls)].at

\* no step takes an acknowledged alert back to unacknowledged
C20_StaysAcknowledged ==
    (IsAlert(alert) /\ alert.acknowledged) =>
        (IsAlert(alert') /\ alert'.acknowledged)

\* C20: an Alert is created unacknowledged; acknowledge(user) sets
\* acknowledged = True and records the user and the time of the call; once
\* acknowledged the alert stays acknowledged through every later operation,
\* and acknowledged_by is the user of the most recent acknowledge call.
C20_Acknowledgement ==
    /\ []C20_AckState
    /\ [][C20_StaysAcknowledged]_vars

\* an alert acknowledged by one user and then by another, read in between
C20_Witness ==
    /\ pc = "alerted" /\ IsAlert(alert)
    /\ Len(calls) = 2
    /\ calls[1].user # calls[2].user
    /\ shown # NoCall
    /\ shown.acknowledged_by = calls[1].user
    /\ alert.acknowledged_by = calls[2].user
    /\ alert.acknowledged_at = 2


(***************************************************************************)
(* GeographicCorrelator.find_nearby_suppliers                              *)
(*                                                                         *)
(* Coordinates are in hundredths of a degree, distances in metres.  The    *)
(* Haversine distance is held as the values _calculate_distance returns on *)
(* the event points and supplier coordinates drawn, rounded to the metre;  *)
(* no two of them are within a metre of each other or of a radius drawn,   *)
(* other than the distance 0 of a point to itself.                         *)
(***************************************************************************)
HaversineMetres ==
    <<2254, 11406, 2254, 11406>> :> 0 @@
    <<2254, 11406, 5192, 448>> :> 9299960 @@
    <<2254, 11406, 129, 10385>> :> 2607870 @@
    <<2254, 11406, 1895, 7295>> :> 4280457 @@
    <<2254, 11406, 2976, -9537>> :> 13402848 @@
    <<2254, 11406, 3469, 13550>> :> 2482365 @@
    <<2254, 11406, 1375, 10052>> :> 1730895 @@
    <<2254, 11406, 2503, 12157>> :> 812588 @@
    <<2254, 11406, 2257, 8836>> :> 2635820 @@
    <<2254, 11406, 2501, 5507>> :> 5961157 @@
    <<2503, 12140, 2254, 11406>> :> 796355 @@
    <<2503, 12140, 5192, 448>> :> 9497155 @@
    <<2503, 12140, 129, 10385>> :> 3243027 @@
    <<2503, 12140, 1895, 7295>> :> 5015468 @@
    <<2503, 12140, 2976, -9537>> :> 12769585 @@
    <<2503, 12140, 3469, 13550>> :> 1729606 @@
    <<2503, 12140, 1375, 10052>> :> 2518398 @@
    <<2503, 12140, 2503, 12157>> :> 17128 @@
    <<2503, 12140, 2257, 8836>> :> 3364382 @@
    <<2503, 12140, 2501, 5507>> :> 6608765 @@
    <<0, 0, 2254, 11406>> :> 12467193 @@
    <<0, 0, 5192, 448>> :> 5788478 @@
    <<0, 0, 129, 10385>> :> 11547195 @@
    <<0, 0, 1895, 7295>> :> 8217303 @@
    <<0, 0, 2976, -9537>> :> 10525720 @@
    <<0, 0, 3469, 13550>> :> 14000174 @@
    <<0, 0, 1375, 10052>> :> 11143426 @@
    <<0, 0, 2503, 12157>> :> 13156416 @@
    <<0, 0, 2257, 8836>> :> 9839154 @@
    <<0, 0, 2501, 5507>> :> 6531853

\* GeographicCorrelator._calculate_distance
CalculateDistance(lat1, lon1, lat2, lon2) ==
    HaversineMetres[<<lat1, lon1, lat2, lon2>>]

\* "coordinates": None
NoCoordinates == [ none |-> TRUE ]

\* coords.get("lat") if coords else None
CoordinateOf(e, key) ==
    LET location == Get(e, "location", <<>>)
        coords == Get(location, "coordinates", <<>>)
    IN  IF coords = NoCoordinates \/ coords = <<>> THEN NoCoordinate
        ELSE Get(coords, key, NoCoordinate)

\* the (supplier, distance) pairs within the radius, in catalog order,
\* among the first n suppliers
RECURSIVE NearbyUpTo(_, _, _, _, _)
NearbyUpTo(suppliers, event_lat, event_lon, radius_km, n) ==
    IF n = 0 THEN <<>>
    ELSE LET before == NearbyUpTo(suppliers, event_lat, event_lon, radius_km, n - 1)
             s == Supplier(suppliers[n])
         IN  IF s.latitude = NoCoordinate \/ s.longitude = NoCoordinate THEN before
             ELSE LET distance == CalculateDistance(event_lat, event_lon,
                                                    s.latitude, s.longitude)
                  IN  IF distance <= radius_km * 1000
                      THEN Append(before, [ supplier |-> suppliers[n],
                                            distance |-> distance ])
                      ELSE before

\* nearby.sort(key=lambda x: x[1]): a stable sort, by insertion
RECURSIVE InsertByDistance(_, _)
InsertByDistance(sorted, x) ==
    IF sorted = <<>> THEN <<x>>
    ELSE IF sorted[Len(sorted)].distance <= x.distance THEN Append(sorted, x)
    ELSE Append(InsertByDistance(SubSeq(sorted, 1, Len(sorted) - 1), x),
                sorted[Len(sorted)])

RECURSIVE SortByDistance(_)
SortByDistance(xs) ==
    IF xs = <<>> THEN <<>>
    ELSE InsertByDistance(SortByDistance(SubSeq(xs, 1, Len(xs) - 1)), xs[Len(xs)])

FindNearbySuppliers_CountryFallback(suppliers, e, radius_km) ==
    LET event_lat == CoordinateOf(e, "lat")
        event_lon == CoordinateOf(e, "lon")
        country == Get(Get(e, "location", <<>>), "country", NoText)
    IN  IF event_lat = NoCoordinate \/ event_lon = NoCoordinate
        THEN [ k \in 1..Cardinality(InCountry(suppliers, country)) |->
                 [ supplier |-> suppliers[SortedSeq(InCountry(suppliers, country))[k]],
                   distance |-> 0 ] ]
        ELSE SortByDistance(NearbyUpTo(suppliers, event_lat, event_lon,
                                       radius_km, Len(suppliers)))

\* GeographicCorrelator.find_nearby_suppliers
FindNearbySuppliers(suppliers, e, radius_km) ==
    LET event_lat == CoordinateOf(e, "lat")
        event_lon == CoordinateOf(e, "lon")
    IN  IF event_lat = NoCoordinate \/ event_lon = NoCoordinate THEN <<>>
        ELSE SortByDistance(NearbyUpTo(suppliers, event_lat, event_lon,
                                       radius_km, Len(suppliers)))

\* the "coordinates" entry of an event's location: None, an empty dict, a
\* dict lacking one key or holding None under it, and three points: the
\* first supplier's own position, one near Taipei, and latitude 0,
\* longitude 0
CoordinateInputs ==
    { NoCoordinates, <<>>,
      [ lat |-> 2254 ], [ lon |-> 11406 ],
      [ lat |-> NoCoordinate, lon |-> 11406 ],
      [ lat |-> 2254, lon |-> NoCoordinate ],
      [ lat |-> 2254, lon |-> 11406 ],
      [ lat |-> 2503, lon |-> 12140 ],
      [ lat |-> 0, lon |-> 0 ] }

NearEvents ==
    {<<>>}
    \cup { "location" :> ([ country |-> <<"C","h","i","n","a">> ] @@ c) :
             c \in Optional("coordinates", CoordinateInputs) }

\* radius_km: below zero, zero, the default 500, and larger ones
DefaultRadiusKm == 500
RadiusInputs == {-1, 0, DefaultRadiusKm, 1000, 20000}

InitNear ==
    /\ pc = "start"
    /\ correlator \in { NewGeographicCorrelator(c) : c \in GeoCatalogs }
    /\ event \in NearEvents
    /\ radius \in RadiusInputs
    /\ nearby = None
    /\ georisk = None
    /\ affected = None /\ geo = None /\ result = None
    /\ risk = None
    /\ NoLevel /\ NoAlerting /\ NoClassifying /\ NoImpact /\ NoBatch
    /\ NoSensing /\ NoTime /\ NoBoundary /\ NoAck
    /\ NoRun /\ NoAgg /\ NoOrch

DoFindNearbySuppliers ==
    /\ pc = "start"
    /\ nearby' = FindNearbySuppliers(correlator, event, radius)
    /\ pc' = "near"
    /\ UNCHANGED <<correlator, georisk, radius, coreVars, batchVars, sensingVars>>
    /\ UNCHANGED <<timeVars, boundaryVars, ackVars, runVars, aggVars, orchVars>>

NextNear == DoFindNearbySuppliers

SpecNear == InitNear /\ [][NextNear]_vars

\* the event carries a latitude and a longitude
C21_HasPoint ==
    /\ "location" \in DOMAIN event
    /\ "coordinates" \in DOMAIN event.location
    /\ event.location.coordinates # NoCoordinates
    /\ "lat" \in DOMAIN event.location.coordinates
    /\ "lon" \in DOMAIN event.location.coordinates
    /\ event.location.coordinates.lat # NoCoordinate
    /\ event.location.coordinates.lon # NoCoordinate

\* distance from the event's point to supplier s
C21_Distance(s) ==
    HaversineMetres[<<event.location.coordinates.lat,
                      event.location.coordinates.lon,
                      Supplier(s).latitude, Supplier(s).longitude>>]

\* the catalog suppliers with coordinates that lie within the radius
C21_Within ==
    { s \in { correlator[i] : i \in DOMAIN correlator } :
        /\ Supplier(s).latitude # NoCoordinate
        /\ Supplier(s).longitude # NoCoordinate
        /\ C21_Distance(s) <= radius * 1000 }

\* C21: find_nearby_suppliers returns exactly the suppliers that have
\* coordinates and lie within radius_km of the event's coordinates, each
\* once with its distance, in ascending order of distance; it returns the
\* empty list when the event lacks a latitude or a longitude, whatever the
\* event's country.
C21_NearbySuppliers ==
    pc = "near" =>
        IF ~C21_HasPoint THEN nearby = <<>>
        ELSE /\ { nearby[k].supplier : k \in DOMAIN nearby } = C21_Within
             /\ Len(nearby) = Cardinality(C21_Within)
             /\ \A k \in DOMAIN nearby :
                   nearby[k].distance = C21_Distance(nearby[k].supplier)
             /\ \A j, k \in DOMAIN nearby :
                   j < k => nearby[j].distance <= nearby[k].distance

\* two suppliers returned in the reverse of their catalog order
C21_Witness ==
    /\ pc = "near"
    /\ C21_HasPoint
    /\ Len(nearby) = 2
    /\ nearby[1].supplier > nearby[2].supplier
    /\ nearby[1].distance < nearby[2].distance


(***************************************************************************)
(* Pipeline.execute_all                                                    *)
(***************************************************************************)
\* stage_order
StageOrder ==
    <<"event_sensing", "risk_analysis", "recovery_planning", "contract_drafting">>

\* the loop of execute_all after the first k stages of stage_order: the
\* pipeline, current_data, whether the loop has hit break, and the calls
\* of execute_stage made, each with the input_data it was given
RECURSIVE ExecuteUpTo_NoStop(_, _)
ExecuteUpTo_NoStop(p, k) ==
    IF k = 0
    THEN [ pipeline |-> p, current_data |-> None, stopped |-> FALSE, log |-> <<>> ]
    ELSE LET before == ExecuteUpTo_NoStop(p, k - 1)
             stage == StageOrder[k]
         IN  IF stage \notin DOMAIN before.pipeline.stages THEN before
             ELSE LET r == ExecuteStage(before.pipeline, stage)
                      stage_result == r.returned.value
                  IN  [ pipeline |-> r.pipeline,
                        current_data |-> IF stage_result.success
                                         THEN stage_result.data
                                         ELSE before.current_data,
                        stopped |-> FALSE,
                        log |-> Append(before.log,
                                       [ stage |-> stage,
                                         input_data |-> before.current_data,
                                         success |-> stage_result.success ]) ]

RECURSIVE ExecuteUpTo(_, _)
ExecuteUpTo(p, k) ==
    IF k = 0
    THEN [ pipeline |-> p, current_data |-> None, stopped |-> FALSE, log |-> <<>> ]
    ELSE LET before == ExecuteUpTo(p, k - 1)
             stage == StageOrder[k]
         IN  IF before.stopped \/ stage \notin DOMAIN before.pipeline.stages
             THEN before
             ELSE LET r == ExecuteStage(before.pipeline, stage)
                      stage_result == r.returned.value
                  IN  [ pipeline |-> r.pipeline,
                        current_data |-> IF stage_result.success
                                         THEN stage_result.data
                                         ELSE before.current_data,
                        stopped |-> ~stage_result.success,
                        log |-> Append(before.log,
                                       [ stage |-> stage,
                                         input_data |-> before.current_data,
                                         success |-> stage_result.success ]) ]

ExecuteAll_NoStop(p) ==
    LET done == ExecuteUpTo_NoStop(p, Len(StageOrder))
    IN  [ pipeline |-> done.pipeline, log |-> done.log,
          returned |-> done.pipeline.results ]

\* Pipeline.execute_all: the pipeline afterwards, the execute_stage calls
\* made, and the map returned (self.results)
ExecuteAll(p) ==
    LET done == ExecuteUpTo(p, Len(StageOrder))
    IN  [ pipeline |-> done.pipeline, log |-> done.log,
          returned |-> done.pipeline.results ]

\* a handler of a stage returns data named after the stage, or raises
RunHandlers(stage) ==
    { [ raises |-> FALSE, data |-> "data of " \o stage ],
      [ raises |-> TRUE, error |-> "handler failed" ] }

InitRun ==
    /\ pc = "ready"
    /\ pipeline = NewPipeline
    /\ run = NoCall
    /\ agent = None /\ cycle = None /\ stagecall = None
    /\ risk = None
    /\ NoLevel /\ NoScoring /\ NoAlerting /\ NoClassifying /\ NoImpact
    /\ NoBatch /\ NoGeo /\ NoSensing /\ NoTime /\ NoAck
    /\ NoNear /\ NoAgg /\ NoOrch

\* pipeline.register_stage(stage, handler)
DoRegisterHandler(stage, handler) ==
    /\ pipeline' = RegisterStage(pipeline, stage, handler)
    /\ UNCHANGED <<pc, run, agent, cycle, stagecall, coreVars>>
    /\ UNCHANGED <<batchVars, geoVars, sensingVars, timeVars, ackVars>>
    /\ UNCHANGED <<nearVars, aggVars, orchVars>>

\* pipeline.execute_all()
DoExecuteAll ==
    /\ LET r == ExecuteAll(pipeline)
       IN  /\ pipeline' = r.pipeline
           /\ run' = [ stages |-> pipeline.stages,
                       log |-> r.log,
                       returned |-> r.returned ]
    /\ UNCHANGED <<pc, agent, cycle, stagecall, coreVars>>
    /\ UNCHANGED <<batchVars, geoVars, sensingVars, timeVars, ackVars>>
    /\ UNCHANGED <<nearVars, aggVars, orchVars>>

NextRun ==
    \/ \E stage \in PipelineStages :
          \E handler \in RunHandlers(stage) : DoRegisterHandler(stage, handler)
    \/ DoExecuteAll

SpecRun == InitRun /\ [][NextRun]_vars

\* position of a stage in the fixed order
C22_Position(stage) == CHOOSE k \in DOMAIN StageOrder : StageOrder[k] = stage

\* the registered stages that a run reaches: those with no failing
\* registered stage before them in the fixed order
C22_Reached ==
    { s \in DOMAIN run.stages :
        \A f \in DOMAIN run.stages :
            C22_Position(f) < C22_Position(s) => ~run.stages[f].raises }

\* C22: execute_all runs the registered stages in the order EVENT_SENSING,
\* RISK_ANALYSIS, RECOVERY_PLANNING, CONTRACT_DRAFTING, gives the first
\* None and every other the data returned by the stage run before it, and
\* runs no stage after one that failed.
C22_ExecuteAllOrder ==
    run # NoCall =>
        /\ StageOrder = <<"event_sensing", "risk_analysis",
                          "recovery_planning", "contract_drafting">>
        /\ { run.log[k].stage : k \in DOMAIN run.log } = C22_Reached
        /\ Len(run.log) = Cardinality(C22_Reached)
        /\ \A j, k \in DOMAIN run.log :
              j < k => /\ C22_Position(run.log[j].stage) < C22_Position(run.log[k].stage)
                       /\ run.log[j].success
        /\ \A k \in DOMAIN run.log :
              /\ run.log[k].success = ~run.stages[run.log[k].stage].raises
              /\ run.log[k].input_data =
                    IF k = 1 THEN None
                    ELSE run.stages[run.log[k - 1].stage].data

\* a run of three stages, the second registered one skipped over as
\* unregistered, that stopped at a failing stage with a later stage
\* registered
C22_Witness ==
    /\ run # NoCall
    /\ DOMAIN run.stages =
         {"event_sensing", "recovery_planning", "contract_drafting"}
    /\ Len(run.log) = 2
    /\ run.log[2].stage = "recovery_planning"
    /\ run.log[2].input_data = "data of event_sensing"
    /\ ~run.log[2].success

\* C27: the map returned by execute_all holds an entry for a stage only if
\* the stage was executed in that run.
C27_OnlyLatestRun ==
    run # NoCall =>
        DOMAIN run.returned \subseteq { run.log[k].stage : k \in DOMAIN run.log }


(***************************************************************************)
(* EventAggregator                                                         *)
(*                                                                         *)
(* Times are in ticks of the clock.  An event is a record of the fields    *)
(* the aggregator reads, with an id standing for the object's identity.    *)
(***************************************************************************)
\* EventAggregator.__init__
NewEventAggregator(deduplication_window, max_buffer_size) ==
    [ deduplication_window |-> deduplication_window,
      max_buffer_size |-> max_buffer_size,
      event_buffer |-> <<>>,
      seen_events |-> <<>>,
      events_by_category |-> <<>> ]

SignatureLength == 50

\* f"{x}" of a str (the str itself, "" included) or of None ("None")
FormatText(x) == IF x = NoneText THEN <<"N","o","n","e">> ELSE x

\* str of a category value
CategoryText ==
    [ c \in {"logistics", "natural_disaster"} |->
        IF c = "logistics" THEN <<"l","o","g","i","s","t","i","c","s">>
        ELSE <<"n","a","t","u","r","a","l","_","d","i","s","a","s","t","e","r">> ]

\* EventAggregator._get_event_signature
GetEventSignature(e) ==
    LET lowered == Lower(e.title)
        title == SubSeq(lowered, 1, Min(SignatureLength, Len(lowered)))
    IN  title \o <<"_">> \o FormatText(e.country) \o <<"_">> \o FormatText(e.city)
              \o <<"_">> \o CategoryText[e.category]

IsDuplicate_BufferOnly(a, e, now) ==
    \E k \in DOMAIN a.event_buffer :
        /\ GetEventSignature(a.event_buffer[k]) = GetEventSignature(e)
        /\ now - a.event_buffer[k].detected_at < a.deduplication_window

\* EventAggregator._is_duplicate at time now
IsDuplicate(a, e, now) ==
    LET signature == GetEventSignature(e)
    IN  /\ signature \in DOMAIN a.seen_events
        /\ now - a.seen_events[signature] < a.deduplication_window

\* self._event_buffer.sort(key=lambda e: e.timestamp, reverse=True): a
\* stable sort, by insertion
RECURSIVE InsertNewestFirst(_, _)
InsertNewestFirst(sorted, e) ==
    IF sorted = <<>> THEN <<e>>
    ELSE IF sorted[Len(sorted)].timestamp >= e.timestamp THEN Append(sorted, e)
    ELSE Append(InsertNewestFirst(SubSeq(sorted, 1, Len(sorted) - 1), e),
                sorted[Len(sorted)])

RECURSIVE SortNewestFirst(_)
SortNewestFirst(es) ==
    IF es = <<>> THEN <<>>
    ELSE InsertNewestFirst(SortNewestFirst(SubSeq(es, 1, Len(es) - 1)), es[Len(es)])

\* EventAggregator._prune_oldest
PruneOldest(a) ==
    LET sorted == SortNewestFirst(a.event_buffer)
    IN  [a EXCEPT !.event_buffer =
            SubSeq(sorted, 1, Min(a.max_buffer_size, Len(sorted)))]

AddEvent_NoPrune(a, e, now) ==
    IF IsDuplicate(a, e, now) THEN [ aggregator |-> a, added |-> FALSE ]
    ELSE [ aggregator |->
             [a EXCEPT !.event_buffer = Append(@, e),
                       !.seen_events = Put(@, GetEventSignature(e), e.detected_at),
                       !.events_by_category =
                           Put(@, e.category, Append(Get(@, e.category, <<>>), e))],
           added |-> TRUE ]

\* EventAggregator._add_event at time now: the aggregator afterwards and
\* the value returned
AddEvent(a, e, now) ==
    IF IsDuplicate(a, e, now) THEN [ aggregator |-> a, added |-> FALSE ]
    ELSE LET appended ==
                 [a EXCEPT !.event_buffer = Append(@, e),
                           !.seen_events = Put(@, GetEventSignature(e), e.detected_at),
                           !.events_by_category =
                               Put(@, e.category, Append(Get(@, e.category, <<>>), e))]
         IN  [ aggregator |-> IF Len(appended.event_buffer) > a.max_buffer_size
                              THEN PruneOldest(appended) ELSE appended,
               added |-> TRUE ]

\* EventAggregator.add_batch after the first n events of the batch: the
\* aggregator, added_count, and which events _add_event accepted.  Each
\* _add_event reads the clock for itself: nows[k] is the time
\* datetime.now() returns in the call for the k-th event
RECURSIVE AddBatchUpTo(_, _, _, _)
AddBatchUpTo(a, batch, nows, n) ==
    IF n = 0 THEN [ aggregator |-> a, added_count |-> 0, flags |-> <<>> ]
    ELSE LET before == AddBatchUpTo(a, batch, nows, n - 1)
             r == AddEvent(before.aggregator, batch[n], nows[n])
         IN  [ aggregator |-> r.aggregator,
               added_count |-> before.added_count + (IF r.added THEN 1 ELSE 0),
               flags |-> Append(before.flags, r.added) ]

AddBatch(a, batch, nows) == AddBatchUpTo(a, batch, nows, Len(batch))

\* EventAggregator.clear
ClearAggregator(a) ==
    [a EXCEPT !.event_buffer = <<>>, !.seen_events = <<>>,
              !.events_by_category = <<>>]

\* EventAggregator.get_events_by_category
GetEventsByCategory(a, category) == Get(a.events_by_category, category, <<>>)

(***************************************************************************)
(* add_batch and clear on one aggregator while time passes, between the    *)
(* calls and inside a call                                                 *)
(***************************************************************************)
\* Event objects constructed in one behaviour
MaxMade == 3

TitleLower == <<"p","o","r","t"," ","s","t","r","i","k","e"," ","h","a","l","t","s"," ","c","o","n","t","a","i","n","e","r"," ","t","r","a","f","f","i","c"," ","a","t"," ","t","e","r","m","i","n","a","l"," ","4","2","s">>
TitleUpper == <<"P","O","R","T"," ","S","T","R","I","K","E"," ","H","A","L","T","S"," ","C","O","N","T","A","I","N","E","R"," ","T","R","A","F","F","I","C"," ","A","T"," ","T","E","R","M","I","N","A","L"," ","4","2","X">>
TitleShort == <<"F","l","o","o","d">>

\* what a sensed event says and when it happened: two reports of one port
\* strike, whose titles agree, letter case aside, on their first 50
\* characters, one later than the other; and a flood, of another category
\* and from a location without a city, as old as the first report or as
\* the second
EventInputs ==
    { [ title |-> TitleLower, country |-> <<"C","h","i","n","a">>,
        city |-> <<"S","h","e","n","z","h","e","n">>, category |-> "logistics",
        timestamp |-> 0 ],
      [ title |-> TitleUpper, country |-> <<"C","h","i","n","a">>,
        city |-> <<"S","h","e","n","z","h","e","n">>, category |-> "logistics",
        timestamp |-> 1 ],
      [ title |-> TitleShort, country |-> <<"C","h","i","n","a">>,
        city |-> NoneText, category |-> "natural_disaster", timestamp |-> 0 ],
      [ title |-> TitleShort, country |-> <<"C","h","i","n","a">>,
        city |-> NoneText, category |-> "natural_disaster", timestamp |-> 1 ] }

\* events built at time now: detected_at defaults to the time of construction
EventsAt(now) == { e @@ [ detected_at |-> now ] : e \in EventInputs }

WithEventIds(es, first) == [ k \in DOMAIN es |-> es[k] @@ [ id |-> first + k ] ]

BatchSizes == 1..2

BatchesAt(now, room) ==
    UNION { [1..n -> EventsAt(now)] : n \in { m \in BatchSizes : m <= room } }

WindowInputs == {2}
BufferSizeInputs == {1, 2}

InitAgg ==
    /\ pc = "ready"
    /\ clock = 0
    /\ aggregator \in { NewEventAggregator(w, m) :
                           w \in WindowInputs, m \in BufferSizeInputs }
    /\ added = NoCall
    /\ accepted = <<>>
    /\ made = 0
    /\ risk = None
    /\ NoLevel /\ NoScoring /\ NoAlerting /\ NoClassifying /\ NoImpact
    /\ NoBatch /\ NoGeo /\ NoSensing /\ NoBoundary /\ NoAck
    /\ NoNear /\ NoRun /\ NoOrch

\* n readings of the clock from time now on: time passes between two
\* readings, or does not, and never runs backwards
ClockReadings(now, n) ==
    { nows \in [1..n -> now..MaxClock] :
        \A k \in 1..(n - 1) : nows[k] <= nows[k + 1] }

\* time passes
DoTick ==
    /\ clock < MaxClock
    /\ clock' = clock + 1
    /\ UNCHANGED <<pc, aggVars, coreVars>>
    /\ UNCHANGED <<batchVars, geoVars, sensingVars, boundaryVars, ackVars>>
    /\ UNCHANGED <<nearVars, runVars, orchVars>>

\* aggregator.add_batch(EventBatch(events)) with newly built events, the
\* clock reading nows[k] when the k-th event is checked; the call ends at
\* the time of its last reading
DoAddBatch(events, nows) ==
    /\ LET batch == WithEventIds(events, made)
           r == AddBatch(aggregator, batch, nows)
       IN  /\ aggregator' = r.aggregator
           /\ added' = [ batch |-> batch, nows |-> nows, flags |-> r.flags,
                         returned |-> r.added_count ]
           /\ accepted' = accepted \o SelectSeq(batch, LAMBDA e : r.flags[e.id - made])
    /\ made' = made + Len(events)
    /\ clock' = nows[Len(nows)]
    /\ UNCHANGED <<pc, coreVars>>
    /\ UNCHANGED <<batchVars, geoVars, sensingVars, boundaryVars, ackVars>>
    /\ UNCHANGED <<nearVars, runVars, orchVars>>

\* aggregator.clear()
DoClear ==
    /\ aggregator' = ClearAggregator(aggregator)
    /\ added' = NoCall
    /\ accepted' = <<>>
    /\ UNCHANGED <<pc, clock, made, coreVars>>
    /\ UNCHANGED <<batchVars, geoVars, sensingVars, boundaryVars, ackVars>>
    /\ UNCHANGED <<nearVars, runVars, orchVars>>

NextAgg ==
    \/ DoTick
    \/ \E events \in BatchesAt(clock, MaxMade - made) :
          \E nows \in ClockReadings(clock, Len(events)) : DoAddBatch(events, nows)
    \/ DoClear

SpecAgg == InitAgg /\ [][NextAgg]_vars


Elements(s) == { s[k] : k \in DOMAIN s }

\* the events of the last batch that _add_event accepted
AcceptedOf(call) == { call.batch[k] : k \in { j \in DOMAIN call.batch : call.flags[j] } }

\* C23: after every add_batch the buffer holds at most max_buffer_size
\* events, and it holds the newest by timestamp of the events it held
\* before and the events the call accepted: as many of them as fit, and
\* none that is older than one that was removed.
C23_Bounded == Len(aggregator.event_buffer) <= aggregator.max_buffer_size

C23_KeepsNewest ==
    made' # made =>
        LET candidates == Elements(aggregator.event_buffer) \cup AcceptedOf(added')
            kept == Elements(aggregator'.event_buffer)
        IN  /\ kept \subseteq candidates
            /\ Cardinality(kept) = Len(aggregator'.event_buffer)
            /\ Cardinality(kept) = Min(aggregator.max_buffer_size, Cardinality(candidates))
            /\ \A removed \in candidates \ kept : \A e \in kept :
                   removed.timestamp <= e.timestamp

C23_BufferLimit == []C23_Bounded /\ [][C23_KeepsNewest]_vars

\* an add_batch that overflowed the limit and removed an older event
C23_Witness ==
    /\ added # NoCall
    /\ Len(aggregator.event_buffer) = aggregator.max_buffer_size
    /\ \E new \in AcceptedOf(added) \cap Elements(aggregator.event_buffer) :
          \E old \in Elements(accepted) \ Elements(aggregator.event_buffer) :
             old.timestamp < new.timestamp

\* the signature of an event, field by field
SignatureFields(e) ==
    << Prefix(Lower(e.title), SignatureLength), e.country, e.city, e.category >>

\* an event accepted earlier with the signature of e was detected less
\* than the window before now
SeenWithinWindow(earlier, e, now, window) ==
    \E k \in DOMAIN earlier :
        /\ SignatureFields(earlier[k]) = SignatureFields(e)
        /\ now - earlier[k].detected_at < window

\* C24: add_batch rejects an event exactly when an event of the same
\* signature was accepted earlier (in an earlier batch or in this one,
\* since the last clear, still buffered or not) and detected less than
\* deduplication_window before the time at which the event is checked
\* (the clock is read for each event of a batch, and time may pass between
\* two of them); a rejected event is not in the buffer, and the call
\* returns the number of accepted events.
C24_Deduplicates ==
    made' # made =>
        LET call == added'
            EarlierThan(k) ==
                accepted \o SelectSeq(SubSeq(call.batch, 1, k - 1),
                                      LAMBDA e : call.flags[e.id - made])
        IN  /\ \A k \in DOMAIN call.batch :
                  call.flags[k] =
                      ~SeenWithinWindow(EarlierThan(k), call.batch[k], call.nows[k],
                                        aggregator.deduplication_window)
            /\ \A k \in DOMAIN call.batch :
                  ~call.flags[k] =>
                      call.batch[k] \notin Elements(aggregator'.event_buffer)
            /\ call.returned = Cardinality(AcceptedOf(call))

C24_Deduplication == [][C24_Deduplicates]_vars

\* a rejected event whose title differs from that of the event accepted
\* earlier, which has been pruned from the buffer
C24_Witness ==
    /\ added # NoCall
    /\ \E k \in DOMAIN added.batch :
          /\ ~added.flags[k]
          /\ \E e \in Elements(accepted) \ Elements(aggregator.event_buffer) :
                /\ SignatureFields(e) = SignatureFields(added.batch[k])
                /\ e.title # added.batch[k].title

\* C25: every event counted by add_batch is in the buffer when add_batch
\* returns.
C25_CountedInBuffer ==
    added # NoCall =>
        AcceptedOf(added) \subseteq Elements(aggregator.event_buffer)

\* C26: get_events_by_category(c) returns exactly the events of category
\* c that are in the buffer.
C26_IndexAgreesWithBuffer ==
    \A c \in DOMAIN CategoryText :
        Elements(GetEventsByCategory(aggregator, c)) =
            { e \in Elements(aggregator.event_buffer) : e.category = c }


(***************************************************************************)
(* MasterOrchestrator: the risk analysis stage feeding recovery planning   *)
(*                                                                         *)
(* calculate_risk_score stores the RiskLevel member itself under           *)
(* "risk_level", and the handler copies it into the risk dict, where the   *)
(* planner compares it with text.  A value of that field therefore carries *)
(* its Python type: a member of an Enum equals only itself, never the text *)
(* of its value.                                                           *)
(***************************************************************************)
EnumMember(class, value) == [ type |-> class, value |-> value ]
Text(value) == [ type |-> "str", value |-> value ]

\* x in [text, ...] for a value x of the risk dict
IsOneOf(x, texts) == x.type = "str" /\ x.value \in texts

EventsPerRun == 5
RisksPerRun == 3
SuppliersPerRisk == 3

\* the dicts built from affected_suppliers[:3]
AffectedDicts(affected_suppliers) ==
    [ k \in 1..Min(SuppliersPerRisk, Len(affected_suppliers)) |->
        [ name |-> Supplier(affected_suppliers[k]).name,
          country |-> Supplier(affected_suppliers[k]).country,
          categories |-> Supplier(affected_suppliers[k]).categories ] ]

\* the risk_info dict built for one event as risk number n (risk_id is
\* f"risk-{n:03d}", kept as n; the title is omitted)
RiskInfoOf(e, n, affected_suppliers, risk_result) ==
    [ risk_id |-> n,
      risk_level |-> EnumMember("RiskLevel", risk_result.risk_level),
      risk_type |-> Get(e, "category", "unknown"),
      risk_score |-> risk_result.composite_score,
      estimated_delay_days |-> risk_result.estimated_delay_days,
      affected_suppliers |-> AffectedDicts(affected_suppliers) ]

\* the risk_info for the local affected_suppliers
RiskInfoFor(e, n, affected_suppliers) ==
    RiskInfoOf(e, n, affected_suppliers,
               CalculateRiskScore(e, affected_suppliers, HalfWeight))

RiskInfo(e, n) == RiskInfoFor(e, n, FindAffectedSuppliers(NewImpactAnalyzer(<<>>), e))

\* MasterOrchestrator._handle_risk_analysis over events[1..n]: the list of
\* risks it returns
RECURSIVE RisksUpTo(_, _)
RisksUpTo(events, n) ==
    IF n = 0 THEN <<>>
    ELSE Append(RisksUpTo(events, n - 1), RiskInfo(events[n], n))

HandleRiskAnalysis(events) == RisksUpTo(events, Min(EventsPerRun, Len(events)))

NewRecoveryAction(action_type, priority, deadline_days, estimated_cost) ==
    [ action_type |-> action_type, priority |-> priority,
      deadline_days |-> deadline_days, estimated_cost |-> estimated_cost ]

\* RecoveryPlanner._generate_actions
GenerateActions(risk_info, risk_level, affected_country) ==
    LET urgent == IsOneOf(risk_level, {"critical", "high"})
    IN  (IF urgent
         THEN << NewRecoveryAction("activate_backup", "critical", 1, 5000),
                 NewRecoveryAction("expedite_order", "critical", 2, 15000) >>
         ELSE <<>>)
        \o << NewRecoveryAction("increase_inventory",
                                IF urgent THEN "high" ELSE "medium", 3, 25000),
              NewRecoveryAction("dual_source", "high", 7, 10000) >>
        \o (IF Get(risk_info, "risk_type", "None") = "logistics"
            THEN << NewRecoveryAction("reroute_shipment", "high", 2, 8000) >>
            ELSE <<>>)
        \o << NewRecoveryAction("negotiate_terms", "medium", 5, 2000),
              NewRecoveryAction("split_order", "low", 14, 0) >>

RECURSIVE TotalCost(_)
TotalCost(actions) ==
    IF actions = <<>> THEN 0
    ELSE actions[1].estimated_cost + TotalCost(Tail(actions))

\* RecoveryPlanner.generate_plan followed by RecoveryPlan.to_dict (the
\* recommended backup suppliers, texts and dates are omitted)
GeneratePlan(risk_info) ==
    LET risk_level == Get(risk_info, "risk_level", Text("medium"))
        affected_suppliers == Get(risk_info, "affected_suppliers", <<>>)
        affected_country ==
            IF affected_suppliers # <<>> THEN affected_suppliers[1].country ELSE NoText
        actions == GenerateActions(risk_info, risk_level, affected_country)
    IN  [ risk_id |-> Get(risk_info, "risk_id", 0),
          affected_supplier_name |->
              IF affected_suppliers # <<>> THEN affected_suppliers[1].name
              ELSE "Unknown Supplier",
          estimated_recovery_days |-> Get(risk_info, "estimated_delay_days", 14),
          total_estimated_cost |-> TotalCost(actions),
          actions |-> actions ]

\* MasterOrchestrator._handle_recovery_planning
HandleRecoveryPlanning(risks) ==
    [ k \in 1..Min(RisksPerRun, Len(risks)) |-> GeneratePlan(risks[k]) ]

(***************************************************************************)
(* One run of the two stages on a list of normalized events                *)
(***************************************************************************)
\* longest event list handed to the risk analysis stage
MaxStageEvents == 6

\* a port closure in China (rated critical), a critical event in China
\* without keywords (rated high), and a minor event nowhere near a supplier
StageEventInputs ==
    { [ category |-> "logistics", severity |-> "critical", confidence |-> One,
        impact_score |-> One,
        location |-> [ country |-> <<"C","h","i","n","a">> ],
        keywords |-> << <<"P","o","r","t">> >> ],
      [ category |-> "logistics", severity |-> "critical", confidence |-> One,
        impact_score |-> One,
        location |-> [ country |-> <<"C","h","i","n","a">> ],
        keywords |-> <<>> ],
      [ category |-> "economic", severity |-> "low", confidence |-> One,
        location |-> [ country |-> <<"M","a","r","s">> ],
        keywords |-> <<>> ] }

StageEventLists == UNION { [1..n -> StageEventInputs] : n \in 0..MaxStageEvents }

InitOrch ==
    /\ pc = "events"
    /\ orchestrated \in { [ events |-> events ] : events \in StageEventLists }
    /\ risk = None
    /\ NoLevel /\ NoScoring /\ NoAlerting /\ NoClassifying /\ NoImpact
    /\ NoBatch /\ NoGeo /\ NoSensing /\ NoTime /\ NoBoundary /\ NoAck
    /\ NoNear /\ NoRun /\ NoAgg

\* risks = self._handle_risk_analysis(events)
DoHandleRiskAnalysis ==
    /\ pc = "events"
    /\ orchestrated' = [ events |-> orchestrated.events,
                         risks |-> HandleRiskAnalysis(orchestrated.events) ]
    /\ pc' = "risks"
    /\ UNCHANGED <<coreVars, batchVars, geoVars, sensingVars, timeVars>>
    /\ UNCHANGED <<boundaryVars, ackVars, nearVars, runVars, aggVars>>

\* plans = self._handle_recovery_planning(risks)
DoHandleRecoveryPlanning ==
    /\ pc = "risks"
    /\ orchestrated' = [ events |-> orchestrated.events,
                         risks |-> orchestrated.risks,
                         plans |-> HandleRecoveryPlanning(orchestrated.risks) ]
    /\ pc' = "plans"
    /\ UNCHANGED <<coreVars, batchVars, geoVars, sensingVars, timeVars>>
    /\ UNCHANGED <<boundaryVars, ackVars, nearVars, runVars, aggVars>>

NextOrch == DoHandleRiskAnalysis \/ DoHandleRecoveryPlanning

SpecOrch == InitOrch /\ [][NextOrch]_vars

ActionTypes(plan) == { plan.actions[k].action_type : k \in DOMAIN plan.actions }

\* C28: once both stages have run, every risk rated critical or high has a
\* recovery plan, and that plan holds the actions activate_backup and
\* expedite_order.
C28_UrgentRisksGetUrgentActions ==
    pc = "plans" =>
        \A k \in DOMAIN orchestrated.risks :
            orchestrated.risks[k].risk_level.value \in {"critical", "high"} =>
                \E p \in DOMAIN orchestrated.plans :
                    /\ orchestrated.plans[p].risk_id = orchestrated.risks[k].risk_id
                    /\ {"activate_backup", "expedite_order"}
                           \subseteq ActionTypes(orchestrated.plans[p])


(***************************************************************************)
(* Urgency of a risk that touches a critical supplier                      *)
(***************************************************************************)
C29_HasCriticalSupplier ==
    \E k \in DOMAIN affected : Supplier(affected[k]).criticality = "critical"

\* C29: when an affected supplier has critical criticality,
\* calculate_risk_score returns mitigation_urgency immediate and a
\* supplier_criticality component of 1.0, whatever the event, the spend
\* and the geographic factor.
C29_CriticalSupplierIsImmediate ==
    (pc \in {"scored", "risk"} /\ C29_HasCriticalSupplier) =>
        /\ result.mitigation_urgency = "immediate"
        /\ result.component_scores.supplier_criticality = One

\* a critical supplier under an event whose composite score alone would
\* make the urgency long_term
C29_Witness ==
    /\ pc = "scored"
    /\ C29_HasCriticalSupplier
    /\ result.composite_score < LevelMedium
    /\ result.mitigation_urgency = "immediate"


(***************************************************************************)
(* Country membership: correlator against Supplier.is_in_country           *)
(***************************************************************************)
\* the catalog positions whose supplier is_in_country(country)
C30_Members ==
    { i \in DOMAIN correlator : IsInCountry(Supplier(correlator[i]), C13_Country) }

\* C30: suppliers_in_region is the number of catalog suppliers s with
\* s.is_in_country(country), and spend_at_risk the sum of their
\* annual_spend, for every country string and every catalog.
C30_AgreesWithIsInCountry ==
    pc = "geo" =>
        /\ georisk.suppliers_in_region = Cardinality(C30_Members)
        /\ georisk.spend_at_risk = SumSpend(correlator, C30_Members)

=============================================================================
